---- MODULE Spec2Model ----
(***************************************************************************)
(* State-machine model of the job submission / poll / aggregate subsystem  *)
(* of simons_workflow_helpers:                                             *)
(*   jobcontroller.py                main, process_file                    *)
(*   jobcontroller_ffastrans_api.py  submit_encoding_job,                  *)
(*                                   wait_for_job_completion               *)
(*   launch_job.py                   main, launch_jobs, monitor_jobs,      *)
(*                                   poll_job_completion, write_summary    *)
(* The workflow engine is the environment: every HTTP answer is a          *)
(* nondeterministic choice.                                                *)
(***************************************************************************)
EXTENDS Integers, Sequences, FiniteSets, TLC

(* ------------------------------ bounds -------------------------------- *)

\* largest number of files find_files returns
MaxFiles == 2

\* largest value of --concurrent_processes
MaxConcurrent == 2

\* largest value of --http_max_retries (the smallest is 1)
MaxRetriesCfg == 2

\* largest number of nodes of a wf_object, and of variables of one node
MaxNodes == 2

MaxVars == 2

\* largest number of items of launch_job's input file
MaxItems == 2

\* largest number of entries of a history answer
MaxHist == 2

\* largest number of --variable options, and of variables of a running job
MaxLjVars == 2

\* largest number of running jobs in a tickets answer
MaxRunning == 2

\* largest number of upsert calls on one MongoUpsert object
MaxUpserts == 3

\* largest number of options of an FFmpeg command file
MaxOptions == 3

\* largest number of add_field_to_report processes on one report file
MaxProcs == 2

\* largest number of entries of a report file
MaxEntries == 2

\* largest --lock_timeout, in iterations of the loop of
\* acquire_lock_with_stale_handling
MaxLockTimeout == 2

\* branch report files in the directory
MaxBranches == 2

\* largest retries argument of the two retry functions
MaxMoveRetries == 3

\* file groups in the source directory, and files of one group
MaxGroups == 2

MaxGroupSize == 2

(* ------------------------------ values -------------------------------- *)

\* Python's None
NONE == "None"

\* the variable process_file awaits (jobcontroller.py:360)
AWAITED == "s_output"

VarNames == {AWAITED, "s_other"}

VarData == {"/out/a.mxf", "/out/b.mxf"}

\* one entry of a node's properties.variables list; the data of a variable
\* with another name is never read (line 135), one value stands for it
Variables ==
    {[name |-> AWAITED, data |-> d] : d \in VarData}
        \cup {[name |-> x, data |-> "/tmp/x"] : x \in VarNames \ {AWAITED}}

RECURSIVE SeqsUpTo(_, _)
SeqsUpTo(S, n) ==
    IF n = 0 THEN {<<>>}
    ELSE LET shorter == SeqsUpTo(S, n - 1)
         IN  shorter \cup {Append(s, x) : s \in {t \in shorter : Len(t) = n - 1}, x \in S}

\* a node of wf_object.nodes, reduced to its properties.variables list
Nodes == SeqsUpTo(Variables, MaxVars)

\* wf_object, reduced to its nodes list
WfObjects == SeqsUpTo(Nodes, MaxNodes)

\* two wf_objects: without and with the awaited variable
WfObjectsSmall ==
    {<<>>, << <<[name |-> AWAITED, data |-> "/out/a.mxf"]>> >>}

\* the wf_objects an engine of the given kind answers with
EngineGraphs(kind) == IF kind = "any" THEN WfObjects ELSE WfObjectsSmall

\* what one status GET can do (jobcontroller_ffastrans_api.py:102-167):
\*   timeout     requests.get raises requests.exceptions.Timeout
\*   conn_error  requests.get raises any other exception
\*   http_error  a response whose status_code is not 200
\*   bad_body    a 200 response whose body makes response.json() or the
\*               traversal of the job details raise
\*   running     200, a status that is neither finished nor error nor failed
\*   finished, error, failed   200 with that status
PollResponses ==
    {"timeout", "conn_error", "http_error", "bad_body",
     "running", "finished", "error", "failed"}

\* the answers that reach line 121, status = job_details.get('status')
PollStatuses == {"running", "finished", "error", "failed"}

VARIABLES
    files,                      \* number of files find_files returned
    concurrent_file_processes,  \* CONFIG['concurrent_file_processes']
    http_max_retries,           \* CONFIG['http_max_retries']
    engine,                     \* which wf_objects the engine answers with
    wf_object,                  \* the wf_object of the finished answer
    wpc,                        \* position of each file's worker
    job_id,                     \* process_file's job_id
    consecutive_failures,       \* wait_for_job_completion's counter
    status,                     \* wait_for_job_completion's status
    output_value,               \* what wait_for_job_completion returned
    future,                     \* result or exception of each future
    yielded,                    \* the futures as_completed has yielded
    results,                    \* main's results list
    mainpc,                     \* position of main
    exit_code,                  \* the process exit code (-1: still running)
    posts,                      \* engine: POSTs received for each file
    poll_loops,                 \* calls of wait_for_job_completion per file
    last_call,                  \* how each file's last status call went
    writes,                     \* who has written which report file
    \* launch_job.py
    input_files,                \* number of items load_input_file returned
    lpc,                        \* position of launch_job's main
    idx,                        \* launch_jobs' loop index
    post_answer,                \* engine: the answer to each item's POST
    launched_jobs,              \* launch_jobs' list
    mon,                        \* monitor_jobs' position in launched_jobs
    retry_count,                \* poll_job_completion's counter
    lj_results,                 \* monitor_jobs' results dict, in key order
    summaries,                  \* number of summaries written
    lj_exit_code,               \* what main returns (-1: still running)
    lj_posts,                   \* engine: POSTs received for each item
    lj_gets,                    \* engine: status GETs received for the job
                                \* monitor_jobs is at
    poll_frequency,             \* args.poll_frequency
    variables_list,             \* args.variable, (name, data) pairs
    variables_from_job_id,      \* args.variables_from_job_id
    fetched_vars,               \* what fetch_variables_from_job returned
    prepared_vars,              \* what prepare_variables returned
    lj_slept,                   \* seconds of the last sleep between two polls
    \* mongo_upsert.py
    STORES,                     \* _STORES[self._key], a list of documents
    ID_COUNTER,                 \* _ID_COUNTER
    filter_query,               \* the filter the caller upserts with
    update_data,                \* the data of the last upsert
    upsert_result,              \* what the last upsert returned
    upserts,                    \* number of upsert calls so far
    \* gpu_encoding_cmd.py
    gpu_pc,                     \* position of gpu_encoding_cmd's main
    original_cmd,               \* the words of the command file
    gpu_args,                   \* the parsed arguments
    modified_cmd,               \* what apply_rules returned
    gpu_executed,               \* whether Popen ran the command
    gpu_exit_code,              \* the process exit code (-1: still running)
    \* add_field_to_report.py
    apc,                        \* position of each process
    lock_file,                  \* who created <report>.lock (0: no file)
    lock_age,                   \* seconds since the lock file's mtime
    lock_timeout,               \* args.lock_timeout, in loop iterations
    elapsed,                    \* loop iterations of each process so far
    report,                     \* the entries of the report file
    af_args,                    \* match_value and new_field_name of each
    loaded,                     \* the report each process loaded
    af_exit_code,               \* exit code of each process (-1: running)
    \* merge_branch_reports.py
    mb_pc,                      \* position of main
    full_report_file,           \* the entries of the full report file
    branch_files,               \* the branch report files, sorted by name
    full_report,                \* main's full_report
    branch_i,                   \* the place of branch_file in branch_files
    match_value,                \* main's match_value
    mb_exit_code,               \* the process exit code (-1: still running)
    \* move_files_with_report.py
    rt_fn,                      \* the function that was called
    rt_pc,                      \* position in the function
    retries,                    \* the argument retries
    delay,                      \* the argument delay
    attempt,                    \* the loop variable
    outcomes,                   \* whether each attempt so far succeeded
    rt_slept,                   \* seconds of time.sleep so far
    rt_result,                  \* the returned value (NONE: not returned)
    \* distribute_avid_mxf.py
    da_pc,                      \* position of main
    sorted_groups,              \* the number of files of each group
    group_i,                    \* the place of the group of the outer loop
    file_i,                     \* files of the group the inner loop took
    target_counter,             \* number of the current target directory
    current_count,              \* main's count for the current directory
    dir_files,                  \* number of files in each target directory
    moved                       \* <<group, directory>> of every moved file

vars ==
    <<files, concurrent_file_processes, http_max_retries, engine, wf_object,
      wpc, job_id, consecutive_failures, status, output_value, future,
      yielded, results, mainpc, exit_code, input_files, lpc, idx,
      post_answer, launched_jobs, mon, retry_count, lj_results, summaries,
      lj_exit_code, posts, poll_loops, last_call, writes, lj_posts, lj_gets,
      poll_frequency, variables_list, variables_from_job_id, fetched_vars,
      prepared_vars, lj_slept, STORES, ID_COUNTER, filter_query,
      update_data, upsert_result, upserts, gpu_pc, original_cmd, gpu_args,
      modified_cmd, gpu_executed, gpu_exit_code, apc, lock_file, lock_age,
      lock_timeout, elapsed, report, af_args, loaded, af_exit_code, mb_pc, full_report_file, branch_files,
      full_report, branch_i, match_value, mb_exit_code, rt_fn, rt_pc,
      retries, delay, attempt, outcomes, rt_slept, rt_result, da_pc,
      sorted_groups, group_i, file_i, target_counter, current_count,
      dir_files, moved>>

mongo_vars ==
    <<STORES, ID_COUNTER, filter_query, update_data, upsert_result, upserts>>

gpu_vars ==
    <<gpu_pc, original_cmd, gpu_args, modified_cmd, gpu_executed,
      gpu_exit_code>>

lock_vars ==
    <<apc, lock_file, lock_age, lock_timeout, elapsed, report, af_args,
      loaded, af_exit_code>>

mb_vars ==
    <<mb_pc, full_report_file, branch_files, full_report, branch_i,
      match_value, mb_exit_code>>

rt_vars ==
    <<rt_fn, rt_pc, retries, delay, attempt, outcomes, rt_slept, rt_result>>

da_vars ==
    <<da_pc, sorted_groups, group_i, file_i, target_counter, current_count,
      dir_files, moved>>

\* the state of the file tools
tool_vars == <<mb_vars, rt_vars, da_vars>>

\* the state of the programs outside the job subsystem
ext_vars == <<mongo_vars, gpu_vars, lock_vars, tool_vars>>

jc_vars ==
    <<files, concurrent_file_processes, http_max_retries, engine, wf_object,
      wpc, job_id, consecutive_failures, status, output_value, future,
      yielded, results, mainpc, exit_code, posts, poll_loops,
      last_call, writes>>

lj_vars ==
    <<input_files, lpc, idx, post_answer, launched_jobs, mon, retry_count,
      lj_results, summaries, lj_exit_code, lj_posts, lj_gets,
      poll_frequency, variables_list, variables_from_job_id, fetched_vars,
      prepared_vars, lj_slept>>

\* launch_job's arguments and what prepare_variables made of them
lj_prep ==
    <<poll_frequency, variables_list, variables_from_job_id, fetched_vars,
      prepared_vars>>

FileIdx == 0 .. (files - 1)

JobIdOf(i) == "job_" \o ToString(i)

(* ---------------- wait_for_job_completion, pure parts ------------------ *)

\* the first variable of one node named n, as <<data>>, or <<>>
RECURSIVE FirstInNode(_, _)
FirstInNode(variables, n) ==
    IF variables = <<>> THEN <<>>
    ELSE IF Head(variables).name = n THEN <<Head(variables).data>>
    ELSE FirstInNode(Tail(variables), n)

\* the last variable of one node named n (a scan that does not stop)
RECURSIVE LastInNode(_, _)
LastInNode(variables, n) ==
    IF variables = <<>> THEN <<>>
    ELSE LET rest == LastInNode(Tail(variables), n)
         IN  IF rest # <<>> THEN rest
             ELSE IF Head(variables).name = n THEN <<Head(variables).data>>
             ELSE <<>>

RECURSIVE ExtractLast(_, _)
ExtractLast(nodes, n) ==
    IF nodes = <<>> THEN <<>>
    ELSE LET rest == ExtractLast(Tail(nodes), n)
         IN  IF rest # <<>> THEN rest ELSE LastInNode(Head(nodes), n)

\* lines 130-136: for node in nodes: for var in variables:
\*   if var.get('name') == variable_to_extract: return var.get('data')
RECURSIVE ExtractVariable(_, _)
ExtractVariable(nodes, n) ==
    IF nodes = <<>> THEN <<>>
    ELSE LET here == FirstInNode(Head(nodes), n)
         IN  IF here # <<>> THEN here ELSE ExtractVariable(Tail(nodes), n)

GiveUpOffByOne(cf, max_retries) == cf > max_retries

\* lines 110, 153, 163: if consecutive_failures >= max_retries: return None
GiveUp(cf, max_retries) == cf >= max_retries

FinishedKeepsPolling(nodes, n) ==
    LET found == ExtractVariable(nodes, n)
    IN  IF found # <<>> THEN [next |-> "return", value |-> found[1]]
        ELSE [next |-> "sleep", value |-> NONE]

\* lines 123-139: the finished branch returns the variable or None
OnFinished(nodes, n) ==
    LET found == ExtractVariable(nodes, n)
    IN  [next |-> "return", value |-> IF found # <<>> THEN found[1] ELSE NONE]

IsFailedStatusOnlyFailed(st) == st = "failed"

\* line 141: elif status in ['error', 'failed']
IsFailedStatus(st) == st \in {"error", "failed"}

\* an iteration that keeps the counter when the job is still running
PollIterationKeepsCounter(r, cf, max_retries, nodes) ==
    CASE r \in {"timeout", "conn_error", "http_error"} ->
            [cf |-> cf + 1,
             next |-> IF GiveUp(cf + 1, max_retries) THEN "return" ELSE "sleep",
             value |-> NONE]
      [] r = "bad_body" ->
            [cf |-> 1,
             next |-> IF GiveUp(1, max_retries) THEN "return" ELSE "sleep",
             value |-> NONE]
      [] r = "finished" ->
            [cf |-> 0] @@ OnFinished(nodes, AWAITED)
      [] IsFailedStatus(r) ->
            [cf |-> 0, next |-> "return", value |-> NONE]
      [] OTHER ->
            [cf |-> cf, next |-> "sleep", value |-> NONE]

\* One iteration of the while loop (lines 99-167) for the answer r, the
\* counter cf and the job's wf_object: the new counter, whether the loop
\* returns or sleeps, and the value returned.
PollIteration(r, cf, max_retries, nodes) ==
    CASE r \in {"timeout", "conn_error", "http_error"} ->
            \* lines 105-115, 149-157, 159-167
            [cf |-> cf + 1,
             next |-> IF GiveUp(cf + 1, max_retries) THEN "return" ELSE "sleep",
             value |-> NONE]
      [] r = "bad_body" ->
            \* line 118 has reset the counter before line 120 raises
            [cf |-> 1,
             next |-> IF GiveUp(1, max_retries) THEN "return" ELSE "sleep",
             value |-> NONE]
      [] r = "finished" ->
            [cf |-> 0] @@ OnFinished(nodes, AWAITED)
      [] IsFailedStatus(r) ->
            [cf |-> 0, next |-> "return", value |-> NONE]
      [] OTHER ->
            \* lines 145-147: still running
            [cf |-> 0, next |-> "sleep", value |-> NONE]

(* ------------------------ process_file (worker) ------------------------ *)

Pending == [status |-> "pending", error |-> ""]

Returned(st, err) == [status |-> st, error |-> err]

\* the future is done: process_file returned a dict or raised
Done(i) == future[i].status # "pending"

\* a worker process of the pool is running process_file for file i
InFlight(i) == wpc[i] \notin {"queued", "done"}

WorkerFreeOffByOne ==
    Cardinality({j \in FileIdx : InFlight(j)}) <= concurrent_file_processes

\* jobcontroller.py:521, max_workers=CONFIG['concurrent_file_processes']: the
\* pool has a worker process that is not running a call
WorkerFree ==
    Cardinality({j \in FileIdx : InFlight(j)}) < concurrent_file_processes

\* ProcessPoolExecutor(max_workers=...): a free worker process takes the
\* next queued call, in submission order (jobcontroller.py:521-525)
\* the writer main, next to the workers 0 .. files - 1
MAIN == -1

\* jobcontroller.py:510: CONFIG['report_file']
FULL_REPORT == "report.json"

ReportBranchFileOfRun(i) == "report_0.json"

\* jobcontroller.py:313: report_branch_file
ReportBranchFile(i) == "report_" \o ToString(i) \o ".json"

pool_start(i) ==
    /\ mainpc = "pool"
    /\ wpc[i] = "queued"
    /\ \A j \in FileIdx : j < i => wpc[j] # "queued"
    /\ WorkerFree
    /\ wpc' = [wpc EXCEPT ![i] = "setup_logging"]
    /\ UNCHANGED <<lj_vars, ext_vars>>
    /\ UNCHANGED writes
    /\ UNCHANGED <<posts, poll_loops, last_call>>
    /\ UNCHANGED <<files, concurrent_file_processes, http_max_retries, engine,
                   wf_object, job_id, consecutive_failures, status,
                   output_value, future, yielded, results, mainpc, exit_code>>

\* jobcontroller.py:302-307, before the try block: an exception here leaves
\* process_file and becomes the future's exception
setup_logging(i) ==
    /\ wpc[i] = "setup_logging"
    /\ \E ok \in BOOLEAN :
          IF ok
          THEN /\ wpc' = [wpc EXCEPT ![i] = "prepare"]
               /\ UNCHANGED future
          ELSE /\ wpc' = [wpc EXCEPT ![i] = "done"]
               /\ future' = [future EXCEPT ![i] = Returned("exception", "setup_logging")]
    /\ UNCHANGED <<lj_vars, ext_vars>>
    /\ UNCHANGED writes
    /\ UNCHANGED <<posts, poll_loops, last_call>>
    /\ UNCHANGED <<files, concurrent_file_processes, http_max_retries, engine,
                   wf_object, job_id, consecutive_failures, status,
                   output_value, yielded, results, mainpc, exit_code>>

\* jobcontroller.py:309-352: branch report (written at lines 317, 337 and
\* 285), media info, timecode, offspeed copy, output directory; any
\* exception is caught at lines 399-401. The steps that can fail come
\* after the first write of the branch report, os.makedirs(exist_ok=True)
\* aside, so a failing prepare has written it too
prepare(i) ==
    /\ wpc[i] = "prepare"
    /\ \E ok \in BOOLEAN :
          IF ok
          THEN /\ wpc' = [wpc EXCEPT ![i] = "submit"]
               /\ UNCHANGED future
          ELSE /\ wpc' = [wpc EXCEPT ![i] = "done"]
               /\ future' = [future EXCEPT ![i] = Returned("error", "prepare")]
    /\ writes' = writes \cup {<<i, ReportBranchFile(i)>>}
    /\ UNCHANGED <<lj_vars, ext_vars>>
    /\ UNCHANGED <<posts, poll_loops, last_call>>
    /\ UNCHANGED <<files, concurrent_file_processes, http_max_retries, engine,
                   wf_object, job_id, consecutive_failures, status,
                   output_value, yielded, results, mainpc, exit_code>>

\* what the POST of submit_encoding_job can do
\* (jobcontroller_ffastrans_api.py:72-82); requests.post is called without a
\* timeout (line 72), so the call does not return while the engine keeps the
\* connection open and sends nothing: no_answer
SubmitResponses ==
    {"conn_error", "http_error", "bad_body", "no_job_id", "job_id", "no_answer"}

\* a submission that is tried again after a failure
submit_encoding_job_retries(i) ==
    /\ wpc[i] = "submit"
    /\ posts[i] < 3
    /\ posts' = [posts EXCEPT ![i] = @ + 1]
    /\ \E r \in SubmitResponses :
          IF r \in {"conn_error", "http_error", "bad_body"}
          THEN UNCHANGED <<wpc, future, job_id>>
          ELSE IF r = "no_answer"
          THEN /\ wpc' = [wpc EXCEPT ![i] = "blocked"]
               /\ UNCHANGED <<future, job_id>>
          ELSE /\ job_id' = [job_id EXCEPT ![i] =
                               IF r = "job_id" THEN JobIdOf(i) ELSE NONE]
               /\ wpc' = [wpc EXCEPT ![i] = "initial_sleep"]
               /\ UNCHANGED future
    /\ UNCHANGED <<lj_vars, ext_vars>>
    /\ UNCHANGED writes
    /\ UNCHANGED <<poll_loops, last_call>>
    /\ UNCHANGED <<files, concurrent_file_processes, http_max_retries, engine,
                   wf_object, consecutive_failures, status,
                   output_value, yielded, results, mainpc, exit_code>>

\* jobcontroller.py:355-357 with jobcontroller_ffastrans_api.py:33-82
submit_encoding_job(i) ==
    /\ wpc[i] = "submit"
    /\ posts' = [posts EXCEPT ![i] = @ + 1]
    /\ \E r \in SubmitResponses :
          IF r \in {"conn_error", "http_error", "bad_body"}
          THEN \* requests.post raises, RuntimeError at line 76, json() raises
               /\ wpc' = [wpc EXCEPT ![i] = "done"]
               /\ future' = [future EXCEPT ![i] = Returned("error", "submit")]
               /\ UNCHANGED job_id
          ELSE IF r = "no_answer"
          THEN \* line 72 does not return
               /\ wpc' = [wpc EXCEPT ![i] = "blocked"]
               /\ UNCHANGED <<future, job_id>>
          ELSE \* line 79: result.get('job_id'), None when the key is missing
               /\ job_id' = [job_id EXCEPT ![i] =
                               IF r = "job_id" THEN JobIdOf(i) ELSE NONE]
               /\ wpc' = [wpc EXCEPT ![i] = "initial_sleep"]
               /\ UNCHANGED future
    /\ UNCHANGED <<lj_vars, ext_vars>>
    /\ UNCHANGED writes
    /\ UNCHANGED <<poll_loops, last_call>>
    /\ UNCHANGED <<files, concurrent_file_processes, http_max_retries, engine,
                   wf_object, consecutive_failures, status,
                   output_value, yielded, results, mainpc, exit_code>>

\* jobcontroller_ffastrans_api.py:93-97: counter 0, time.sleep(2)
wait_initial_sleep(i) ==
    /\ wpc[i] = "initial_sleep"
    /\ wpc' = [wpc EXCEPT ![i] = "get"]
    /\ consecutive_failures' = [consecutive_failures EXCEPT ![i] = 0]
    /\ poll_loops' = [poll_loops EXCEPT ![i] = @ + 1]
    /\ UNCHANGED <<lj_vars, ext_vars>>
    /\ UNCHANGED writes
    /\ UNCHANGED <<posts, last_call>>
    /\ UNCHANGED <<files, concurrent_file_processes, http_max_retries, engine,
                   wf_object, job_id, status, output_value, future,
                   yielded, results, mainpc, exit_code>>

\* jobcontroller_ffastrans_api.py:99-167: one status GET and what the loop
\* does with its answer, up to the return or the time.sleep(poll_interval)
wait_poll(i) ==
    /\ wpc[i] = "get"
    /\ \E r \in PollResponses :
        \E nodes \in IF r = "finished" THEN EngineGraphs(engine) ELSE {wf_object[i]} :
          LET it == PollIteration(r, consecutive_failures[i],
                                  http_max_retries, nodes)
          IN  /\ status' = [status EXCEPT ![i] =
                              IF r \in PollStatuses THEN r ELSE status[i]]
              /\ last_call' = [last_call EXCEPT ![i] =
                                 IF r \in PollStatuses THEN "ok" ELSE "failed"]
              /\ wf_object' = [wf_object EXCEPT ![i] = nodes]
              /\ consecutive_failures' = [consecutive_failures EXCEPT ![i] = it.cf]
              /\ IF it.next = "return"
                 THEN /\ output_value' = [output_value EXCEPT ![i] = it.value]
                      /\ wpc' = [wpc EXCEPT ![i] = "postprocess"]
                 ELSE /\ wpc' = [wpc EXCEPT ![i] = "sleep"]
                      /\ UNCHANGED output_value
    /\ UNCHANGED <<lj_vars, ext_vars>>
    /\ UNCHANGED writes
    /\ UNCHANGED <<posts, poll_loops>>
    /\ UNCHANGED <<files, concurrent_file_processes, http_max_retries, engine,
                   job_id, future, yielded, results, mainpc, exit_code>>

\* time.sleep(poll_interval), then the next iteration
wait_sleep(i) ==
    /\ wpc[i] = "sleep"
    /\ wpc' = [wpc EXCEPT ![i] = "get"]
    /\ UNCHANGED <<lj_vars, ext_vars>>
    /\ UNCHANGED writes
    /\ UNCHANGED <<posts, poll_loops, last_call>>
    /\ UNCHANGED <<files, concurrent_file_processes, http_max_retries, engine,
                   wf_object, job_id, consecutive_failures, status,
                   output_value, future, yielded, results, mainpc, exit_code>>

\* jobcontroller.py:397: the status process_file returns once the steps after
\* the wait have run; output_value is not read
StatusAfterWait(value) == "success"

\* jobcontroller.py:362-401: list and move the encoded files, extend the
\* branch report, return; an exception is caught at lines 399-401
postprocess(i) ==
    /\ wpc[i] = "postprocess"
    /\ \E ok \in BOOLEAN :
          future' = [future EXCEPT ![i] =
                       IF ok THEN Returned(StatusAfterWait(output_value[i]), "")
                       ELSE Returned("error", "move_files")]
    /\ wpc' = [wpc EXCEPT ![i] = "done"]
    \* the job id, the failure counter and the job details go with the frames
    \* of process_file and wait_for_job_completion; status and output_value
    \* stay as the record of the wait
    /\ job_id' = [job_id EXCEPT ![i] = NONE]
    /\ wf_object' = [wf_object EXCEPT ![i] = <<>>]
    /\ consecutive_failures' = [consecutive_failures EXCEPT ![i] = 0]
    /\ UNCHANGED <<lj_vars, ext_vars>>
    \* lines 386-393: with moved files the branch report is written again
    /\ writes' = writes \cup {<<i, ReportBranchFile(i)>>}
    /\ UNCHANGED <<posts, poll_loops, last_call>>
    /\ UNCHANGED <<files, concurrent_file_processes, http_max_retries, engine,
                   status, output_value, yielded, results, mainpc, exit_code>>

(* ------------------------------- main ---------------------------------- *)

\* jobcontroller.py:513-517: find_files raises (exit 1 at line 556), finds
\* nothing (main returns) or finds the files
find_files ==
    /\ mainpc = "find_files"
    /\ \E ok \in BOOLEAN :
          IF ~ok
          THEN mainpc' = "exited" /\ exit_code' = 1
          ELSE IF files = 0
          THEN mainpc' = "exited" /\ exit_code' = 0
          ELSE mainpc' = "pool" /\ UNCHANGED exit_code
    /\ UNCHANGED <<lj_vars, ext_vars>>
    \* line 140 of find_files writes the full report
    /\ writes' = IF exit_code' = 1 THEN writes ELSE {<<MAIN, FULL_REPORT>>}
    /\ UNCHANGED <<posts, poll_loops, last_call>>
    /\ UNCHANGED <<files, concurrent_file_processes, http_max_retries, engine,
                   wf_object, wpc, job_id, consecutive_failures,
                   status, output_value, future, yielded, results>>

AppendUnlessRaised(res, i, fut) ==
    IF fut.status = "exception" THEN res
    ELSE Append(res, [idx |-> i, status |-> fut.status, error |-> fut.error])

AppendRaisedWithoutText(res, i, fut) ==
    IF fut.status = "exception"
    THEN Append(res, [idx |-> i, status |-> "error", error |-> ""])
    ELSE Append(res, [idx |-> i, status |-> fut.status, error |-> fut.error])

\* jobcontroller.py:529-535: future.result() returns the dict, which is
\* appended, or raises, and an error entry with str(e) is appended
AppendResult(res, i, fut) ==
    IF fut.status = "exception"
    THEN Append(res, [idx |-> i, status |-> "error", error |-> fut.error])
    ELSE Append(res, [idx |-> i, status |-> fut.status, error |-> fut.error])

\* jobcontroller.py:527-535: as_completed yields a finished future
collect(i) ==
    /\ mainpc = "pool"
    /\ Done(i)
    /\ i \notin yielded
    /\ yielded' = yielded \cup {i}
    /\ results' = AppendResult(results, i, future[i])
    /\ UNCHANGED <<lj_vars, ext_vars>>
    /\ UNCHANGED writes
    /\ UNCHANGED <<posts, poll_loops, last_call>>
    /\ UNCHANGED <<files, concurrent_file_processes, http_max_retries, engine,
                   wf_object, wpc, job_id, consecutive_failures,
                   status, output_value, future, mainpc, exit_code>>

\* as_completed is exhausted and the with block has joined the pool
pool_join ==
    /\ mainpc = "pool"
    /\ yielded = FileIdx
    /\ mainpc' = "merge"
    /\ UNCHANGED <<lj_vars, ext_vars>>
    /\ UNCHANGED writes
    /\ UNCHANGED <<posts, poll_loops, last_call>>
    /\ UNCHANGED <<files, concurrent_file_processes, http_max_retries, engine,
                   wf_object, wpc, job_id, consecutive_failures,
                   status, output_value, future, yielded, results, exit_code>>

\* jobcontroller.py:537-539 and 404-423: RuntimeError when the script fails
merge_branch_reports ==
    /\ mainpc = "merge"
    /\ \E ok \in BOOLEAN :
          IF ok THEN mainpc' = "create_aaf" /\ UNCHANGED exit_code
          ELSE mainpc' = "exited" /\ exit_code' = 1
    /\ UNCHANGED <<lj_vars, ext_vars>>
    \* merge_branch_reports.py writes the full report
    /\ writes' = IF mainpc' = "create_aaf"
                 THEN writes \cup {<<MAIN, FULL_REPORT>>} ELSE writes
    /\ UNCHANGED <<posts, poll_loops, last_call>>
    /\ UNCHANGED <<files, concurrent_file_processes, http_max_retries, engine,
                   wf_object, wpc, job_id, consecutive_failures,
                   status, output_value, future, yielded, results>>

\* jobcontroller.py:541-542 and 426-461
create_aaf ==
    /\ mainpc = "create_aaf"
    /\ \E ok \in BOOLEAN :
          IF ok THEN mainpc' = "summary" /\ UNCHANGED exit_code
          ELSE mainpc' = "exited" /\ exit_code' = 1
    /\ UNCHANGED <<lj_vars, ext_vars>>
    /\ UNCHANGED writes
    /\ UNCHANGED <<posts, poll_loops, last_call>>
    /\ UNCHANGED <<files, concurrent_file_processes, http_max_retries, engine,
                   wf_object, wpc, job_id, consecutive_failures,
                   status, output_value, future, yielded, results>>

\* jobcontroller.py:547
success_count ==
    Cardinality({k \in 1 .. Len(results) : results[k].status = "success"})

ErrorCountOfFirstResult ==
    IF results # <<>> /\ results[1].status # "success" THEN 1 ELSE 0

\* jobcontroller.py:548
error_count == Len(results) - success_count

\* jobcontroller.py:546-552
summary ==
    /\ mainpc = "summary"
    /\ mainpc' = "exited"
    /\ exit_code' = IF error_count = 0 THEN 0 ELSE 1
    /\ UNCHANGED <<lj_vars, ext_vars>>
    /\ UNCHANGED writes
    /\ UNCHANGED <<posts, poll_loops, last_call>>
    /\ UNCHANGED <<files, concurrent_file_processes, http_max_retries, engine,
                   wf_object, wpc, job_id, consecutive_failures,
                   status, output_value, future, yielded, results>>

(* ----------------------------- launch_job ------------------------------ *)

\* launch_job.py:336, poll_timeout=1800
POLL_TIMEOUT == 1800

\* launch_job.py:267, max_retries = poll_timeout // 60
RETRY_SECONDS == 60

\* launch_job.py:289, time.sleep(60)
POLL_SLEEP == 60

\* values of --poll_frequency: the default (launch_job.py:455) and an override
PollFrequencies == {30, 60}

ItemIdx == 0 .. (input_files - 1)

\* a variable of a running job, as the tickets answer holds it
LjVariables ==
    {[name |-> "v1", data |-> "x"], [name |-> "v1", data |-> "y"],
     [name |-> "v2", data |-> "x"]}

\* a --variable NAME DATA option, as argparse stores it
VariableArgs == {<<v.name, v.data>> : v \in LjVariables}

\* the job --variables_from_job_id names
REF_JOB == "ref"

\* the running jobs of a tickets answer; only the variables of the job
\* with the id looked for are read (launch_job.py:146-148)
RunningJobs ==
    {[job_id |-> REF_JOB, variables |-> vs] : vs \in SeqsUpTo(LjVariables, MaxLjVars)}
        \cup {[job_id |-> "other", variables |-> <<>>]}

\* what the GET of the tickets can do (launch_job.py:139-164)
TicketAnswers ==
    {[kind |-> k, running |-> <<>>] : k \in {"req_exc", "bad_json"}}
        \cup {[kind |-> "tickets", running |-> r] : r \in SeqsUpTo(RunningJobs, MaxRunning)}

\* launch_job.py:145-153: the variables of the first running job with this
\* id, as <<variables>>, or <<>> for None
RECURSIVE FirstRunning(_, _)
FirstRunning(running, jid) ==
    IF running = <<>> THEN <<>>
    ELSE IF Head(running).job_id = jid THEN <<Head(running).variables>>
    ELSE FirstRunning(Tail(running), jid)

\* launch_job.py:128-164: None for every failure
fetch_variables_from_job(answer, jid) ==
    IF answer.kind = "tickets" THEN FirstRunning(answer.running, jid) ELSE <<>>

\* launch_job.py:188-190: {'name': name, 'data': data} for each pair
RECURSIVE AsDicts(_)
AsDicts(pairs) ==
    IF pairs = <<>> THEN <<>>
    ELSE <<[name |-> Head(pairs)[1], data |-> Head(pairs)[2]]>> \o AsDicts(Tail(pairs))

PrepareNothingWithoutFetched(pairs, fetched) ==
    IF fetched = <<>> THEN <<>> ELSE fetched[1] \o AsDicts(pairs)

PrepareCallerFirst(pairs, fetched) ==
    AsDicts(pairs) \o (IF fetched # <<>> THEN fetched[1] ELSE <<>>)

\* launch_job.py:176-192: the fetched variables, when there are any, then
\* the caller's
PrepareVariables(pairs, fetched) ==
    (IF fetched # <<>> THEN fetched[1] ELSE <<>>) \o AsDicts(pairs)

\* the JSON values of a history entry's state
HistStates == {"null", "1", "2"}

\* a history entry, reduced to job_id and state
HistEntries == [job_id : {JobIdOf(k) : k \in ItemIdx}, state : HistStates]

Histories == SeqsUpTo(HistEntries, MaxHist)

\* what the POST of launch_jobs can do (launch_job.py:225-249):
\*   req_exc    session.post or raise_for_status raises RequestException
\*   bad_json   response.json() raises JSONDecodeError
\*   no_job_id  a 2xx answer without job_id
\*   job_id     a 2xx answer with a job_id
PostAnswers == {"req_exc", "bad_json", "no_job_id", "job_id"}

load_input_file_returns_zero ==
    /\ lpc = "load_input_file"
    /\ IF input_files = 0
       THEN lpc' = "exited" /\ lj_exit_code' = 0
       ELSE lpc' = "prepare_variables" /\ UNCHANGED lj_exit_code
    /\ UNCHANGED <<jc_vars, ext_vars>>
    /\ UNCHANGED <<lj_posts, lj_gets, lj_slept>>
    /\ UNCHANGED lj_prep
    /\ UNCHANGED <<input_files, idx, post_answer, launched_jobs, mon,
                   retry_count, lj_results, summaries>>


\* launch_job.py:467-470
load_input_file ==
    /\ lpc = "load_input_file"
    /\ IF input_files = 0
       THEN lpc' = "exited" /\ lj_exit_code' = 1
       ELSE lpc' = "prepare_variables" /\ UNCHANGED lj_exit_code
    /\ UNCHANGED <<jc_vars, ext_vars>>
    /\ UNCHANGED <<lj_posts, lj_gets, lj_slept>>
    /\ UNCHANGED lj_prep
    /\ UNCHANGED <<input_files, idx, post_answer, launched_jobs, mon,
                   retry_count, lj_results, summaries>>

\* launch_job.py:472-479 with 167-192
prepare_variables ==
    /\ lpc = "prepare_variables"
    /\ lpc' = "launch_jobs"
    /\ idx' = 0
    /\ \E answer \in IF variables_from_job_id # NONE THEN TicketAnswers
                      ELSE {[kind |-> "req_exc", running |-> <<>>]} :
          LET fetched == IF variables_from_job_id # NONE
                         THEN fetch_variables_from_job(answer, variables_from_job_id)
                         ELSE <<>>
          IN  /\ fetched_vars' = fetched
              /\ prepared_vars' = PrepareVariables(variables_list, fetched)
    /\ UNCHANGED <<jc_vars, ext_vars>>
    /\ UNCHANGED <<lj_posts, lj_gets, lj_slept>>
    /\ UNCHANGED <<poll_frequency, variables_list, variables_from_job_id>>
    /\ UNCHANGED <<input_files, post_answer, launched_jobs, mon,
                   retry_count, lj_results, summaries, lj_exit_code>>

\* launch_job.py:210-249: one iteration of launch_jobs' loop
launch_jobs_post ==
    /\ lpc = "launch_jobs"
    /\ idx < input_files
    /\ \E a \in PostAnswers :
          /\ post_answer' = [post_answer EXCEPT ![idx] = a]
          /\ launched_jobs' =
                IF a = "job_id"
                THEN Append(launched_jobs, [job_id |-> JobIdOf(idx), input_file |-> idx])
                ELSE launched_jobs
    /\ idx' = idx + 1
    /\ lj_posts' = [lj_posts EXCEPT ![idx] = @ + 1]
    /\ UNCHANGED <<lj_gets, lj_slept>>
    /\ UNCHANGED lj_prep
    /\ UNCHANGED <<jc_vars, ext_vars>>
    /\ UNCHANGED <<input_files, lpc, mon, retry_count, lj_results, summaries,
                   lj_exit_code>>

launch_jobs_return_early ==
    /\ lpc = "launch_jobs"
    /\ idx <= input_files
    /\ IF launched_jobs = <<>>
       THEN lpc' = "exited" /\ lj_exit_code' = 1 /\ UNCHANGED <<mon, retry_count>>
       ELSE lpc' = "monitor_jobs" /\ mon' = 1 /\ retry_count' = 0
            /\ UNCHANGED lj_exit_code
    /\ UNCHANGED <<jc_vars, ext_vars>>
    /\ UNCHANGED <<lj_posts, lj_gets, lj_slept>>
    /\ UNCHANGED lj_prep
    /\ UNCHANGED <<input_files, idx, post_answer, launched_jobs, lj_results,
                   summaries>>

\* launch_job.py:251 and 492-496
launch_jobs_return ==
    /\ lpc = "launch_jobs"
    /\ idx = input_files
    /\ IF launched_jobs = <<>>
       THEN lpc' = "exited" /\ lj_exit_code' = 1 /\ UNCHANGED <<mon, retry_count>>
       ELSE lpc' = "monitor_jobs" /\ mon' = 1 /\ retry_count' = 0
            /\ UNCHANGED lj_exit_code
    /\ UNCHANGED <<jc_vars, ext_vars>>
    /\ UNCHANGED <<lj_posts, lj_gets, lj_slept>>
    /\ UNCHANGED lj_prep
    /\ UNCHANGED <<input_files, idx, post_answer, launched_jobs, lj_results,
                   summaries>>

\* launch_job.py:279-283: the first entry of the history with this job id
\* and a state that is not None, as <<entry>>, or <<>>
RECURSIVE FindEntry(_, _)
FindEntry(history, jid) ==
    IF history = <<>> THEN <<>>
    ELSE IF Head(history).job_id = jid /\ Head(history).state # "null"
         THEN <<Head(history)>>
         ELSE FindEntry(Tail(history), jid)

\* results[job_id] = ...: a dict keeps one value per key
PutResult(res, rec) ==
    IF \E k \in 1 .. Len(res) : res[k].job_id = rec.job_id
    THEN [k \in 1 .. Len(res) |->
            IF res[k].job_id = rec.job_id THEN rec ELSE res[k]]
    ELSE Append(res, rec)

JobResultAnyStateSucceeds(job, entry) ==
    [job_id |-> job.job_id, input_file |-> job.input_file,
     state |-> entry.state,
     status |-> IF entry.state # "null" THEN "success" ELSE "failed"]

\* launch_job.py:339-359: the result of a job whose history entry came back
JobResult(job, entry) ==
    [job_id |-> job.job_id, input_file |-> job.input_file,
     state |-> entry.state,
     status |-> IF entry.state = "1" THEN "success" ELSE "failed"]

\* launch_job.py:360-369: the result of a job poll_job_completion gave up on
TimeoutResult(job) ==
    [job_id |-> job.job_id, input_file |-> job.input_file,
     state |-> NONE, status |-> "failed"]

\* launch_job.py:270: while retry_count < max_retries
MaxPollRetries == POLL_TIMEOUT \div RETRY_SECONDS

\* what one status GET of poll_job_completion can do (launch_job.py:271-308)
LjPollAnswers == {"req_exc", "bad_json", "exception", "history"}

RetryCountUnlessException(a, rc) == IF a = "exception" THEN rc ELSE rc + 1

\* launch_job.py:285, 295, 302, 308: retry_count += 1 on every path of the
\* loop body that does not return
NextRetryCount(a, rc) == rc + 1

\* launch_job.py:270-308 and 339-359: one iteration of poll_job_completion's
\* loop, with the time.sleep(60) that ends it, or its return to monitor_jobs
poll_job_completion ==
    /\ lpc = "monitor_jobs"
    /\ mon <= Len(launched_jobs)
    /\ retry_count < MaxPollRetries
    /\ \E a \in LjPollAnswers :
       \E history \in IF a = "history" THEN Histories ELSE {<<>>} :
          LET found == IF a = "history"
                       THEN FindEntry(history, launched_jobs[mon].job_id)
                       ELSE <<>>
          IN  IF found # <<>>
              THEN /\ lj_results' = PutResult(lj_results,
                                              JobResult(launched_jobs[mon], found[1]))
                   /\ mon' = mon + 1
                   /\ retry_count' = 0
                   /\ lj_gets' = 0
                   /\ UNCHANGED lj_slept
              ELSE /\ retry_count' = NextRetryCount(a, retry_count)
                   /\ lj_gets' = lj_gets + 1
                   \* lines 289, 296, 302, 308: time.sleep(60)
                   /\ lj_slept' = POLL_SLEEP
                   /\ UNCHANGED <<mon, lj_results>>
    /\ UNCHANGED <<jc_vars, ext_vars>>
    /\ UNCHANGED lj_posts
    /\ UNCHANGED lj_prep
    /\ UNCHANGED <<input_files, lpc, idx, post_answer, launched_jobs,
                   summaries, lj_exit_code>>

\* launch_job.py:310-311 and 360-369: the loop ends, None is returned
poll_job_timeout ==
    /\ lpc = "monitor_jobs"
    /\ mon <= Len(launched_jobs)
    /\ retry_count >= MaxPollRetries
    /\ lj_results' = PutResult(lj_results, TimeoutResult(launched_jobs[mon]))
    /\ mon' = mon + 1
    /\ retry_count' = 0
    /\ lj_gets' = 0
    /\ UNCHANGED lj_slept
    /\ UNCHANGED <<jc_vars, ext_vars>>
    /\ UNCHANGED lj_posts
    /\ UNCHANGED lj_prep
    /\ UNCHANGED <<input_files, lpc, idx, post_answer, launched_jobs,
                   summaries, lj_exit_code>>

\* launch_job.py:371 and 498-506: monitor_jobs returns, the summary is written
write_summary ==
    /\ lpc = "monitor_jobs"
    /\ mon > Len(launched_jobs)
    /\ summaries' = summaries + 1
    /\ lpc' = "verdict"
    /\ UNCHANGED <<jc_vars, ext_vars>>
    /\ UNCHANGED <<lj_posts, lj_gets, lj_slept>>
    /\ UNCHANGED lj_prep
    /\ UNCHANGED <<input_files, idx, post_answer, launched_jobs, mon,
                   retry_count, lj_results, lj_exit_code>>

\* launch_job.py:508-510
all_successful == \A k \in 1 .. Len(lj_results) : lj_results[k].status = "success"

\* launch_job.py:512
lj_return ==
    /\ lpc = "verdict"
    /\ lpc' = "exited"
    /\ lj_exit_code' = IF all_successful THEN 0 ELSE 1
    /\ UNCHANGED <<jc_vars, ext_vars>>
    /\ UNCHANGED <<lj_posts, lj_gets, lj_slept>>
    /\ UNCHANGED lj_prep
    /\ UNCHANGED <<input_files, idx, post_answer, launched_jobs, mon,
                   retry_count, lj_results, summaries>>

(* ---------------------------- mongo_upsert ----------------------------- *)

\* a key that a dict does not hold
ABSENT == "absent"

\* the keys and values of the filters, the data and the documents
MongoKeys == {"test_id", "message"}

MongoValues == {"a", "b"}

\* a dict over MongoKeys
MongoDicts == [MongoKeys -> MongoValues \cup {ABSENT}]

\* mongo_upsert.py:63-67: every key/value pair of the filter is in the doc
Matches(doc, query) ==
    \A k \in MongoKeys : query[k] # ABSENT => doc.fields[k] = query[k]

\* mongo_upsert.py:62-70: the position of the first document that matches,
\* 0 when there is none
RECURSIVE FindDoc(_, _, _)
FindDoc(store, query, n) ==
    IF n > Len(store) THEN 0
    ELSE IF Matches(store[n], query) THEN n
    ELSE FindDoc(store, query, n + 1)

\* dict.update and {**filter_query}: the keys of d2 over those of d1
Updated(d1, d2) == [k \in MongoKeys |-> IF d2[k] # ABSENT THEN d2[k] ELSE d1[k]]

NoResult == [matched_count |-> 0, modified_count |-> 0, upserted_id |-> NONE]

UpsertAlwaysInserts(store, counter, query, data, now) ==
    [store |-> Append(store, [fields |-> Updated(query, data),
                              date_created |-> now, date_modified |-> now,
                              id |-> counter]),
     counter |-> counter + 1,
     result |-> [matched_count |-> 0, modified_count |-> 0,
                 upserted_id |-> ToString(counter)]]

\* mongo_upsert.py:51-99: the store, the id counter and the result after
\* upsert(query, data) at the time now
Upsert(store, counter, query, data, now) ==
    LET found == FindDoc(store, query, 1)
    IN  IF found = 0
        THEN [store |-> Append(store, [fields |-> Updated(query, data),
                                       date_created |-> now, date_modified |-> now,
                                       id |-> counter]),
              counter |-> counter + 1,
              result |-> [matched_count |-> 0, modified_count |-> 0,
                          upserted_id |-> ToString(counter)]]
        ELSE [store |-> [store EXCEPT
                            ![found].fields = Updated(store[found].fields, data),
                            ![found].date_modified = now],
              counter |-> counter,
              result |-> [matched_count |-> 1, modified_count |-> 1,
                          upserted_id |-> NONE]]

\* mongo_upsert.py:51-99: one call of upsert with the caller's filter
upsert ==
    /\ upserts < MaxUpserts
    /\ \E data \in MongoDicts :
          LET u == Upsert(STORES, ID_COUNTER, filter_query, data, upserts + 1)
          IN  /\ STORES' = u.store
              /\ ID_COUNTER' = u.counter
              /\ upsert_result' = u.result
              /\ update_data' = data
    /\ upserts' = upserts + 1
    /\ UNCHANGED filter_query
    /\ UNCHANGED <<jc_vars, lj_vars, gpu_vars, lock_vars, tool_vars>>

(* --------------------------- gpu_encoding_cmd --------------------------- *)
\* A command line is the sequence of its words; the words of the command
\* files are separated by spaces.

\* the encoders a command file names after -c:v; libx264rgb is FFmpeg's
\* RGB variant of libx264
VideoCodecs == {"libx264", "libx264rgb", "prores_ks"}

\* the quoted word a command ends with, and the quoted --replace_output
QUOTED_OUTPUT == "\"out.mp4\""

QUOTED_REPLACE == "\"new.mp4\""

\* the options a command file is made of
CmdOptions ==
    {<<"-shortest">>, <<"-preset", "medium">>, <<"-b:v", "60266k">>,
     <<"-metadata", "creation_time=now">>}
        \cup {<<"-c:v", c>> : c \in VideoCodecs}

RECURSIVE JoinOptions(_)
JoinOptions(o) == IF o = <<>> THEN <<>> ELSE Head(o) \o JoinOptions(Tail(o))

\* the command files: the empty one, and ffmpeg with some options and the
\* quoted output file
Commands ==
    {<<>>} \cup {<<"ffmpeg.exe">> \o JoinOptions(o) \o <<"-y", QUOTED_OUTPUT>> :
                    o \in SeqsUpTo(CmdOptions, MaxOptions)}

\* values of --additional_options; None is the empty sequence (line 53)
AdditionalOptions ==
    {<<>>, <<"-preset", "p5">>, <<"-cq", "22", "-b:v", "0">>}

\* the arguments of one run; the others keep their defaults (no
\* --search-replace, --insert_filter, --prepend_audio_filter,
\* --assume_source_fps, --bmx_cmd_file, --output_root, --check_duration)
GpuArgs ==
    [additional_options : AdditionalOptions, remove_shortest : BOOLEAN,
     replace_output : BOOLEAN, test : BOOLEAN]

NoArgs ==
    [additional_options |-> <<>>, remove_shortest |-> FALSE,
     replace_output |-> FALSE, test |-> FALSE]

\* the leftmost of the places a pattern matches at, 0 when there is none
Leftmost(S) == IF S = {} THEN 0 ELSE CHOOSE i \in S : \A j \in S : i <= j

\* re.sub(r" <opt> .+? ", " ", cmd, count=1), lines 75, 78: the option, its
\* value and the spaces around them; a space follows the value only when
\* another word does
RemoveOption(cmd, opt) ==
    LET at == Leftmost({i \in 2 .. Len(cmd) - 2 : cmd[i] = opt})
    IN  IF at = 0 THEN cmd
        ELSE SubSeq(cmd, 1, at - 1) \o SubSeq(cmd, at + 2, Len(cmd))

\* re.sub(r" -shortest ", " ", cmd, count=1), line 93
RemoveShortest(cmd) ==
    LET at == Leftmost({i \in 2 .. Len(cmd) - 1 : cmd[i] = "-shortest"})
    IN  IF at = 0 THEN cmd
        ELSE SubSeq(cmd, 1, at - 1) \o SubSeq(cmd, at + 1, Len(cmd))

\* the pattern r"-c:v libx264" of line 96 ends with the text libx264, not
\* with the end of the word
StartsWithLibx264(word) == word \in {"libx264", "libx264rgb"}

\* what of the word the pattern leaves in place
AfterLibx264(word) == IF word = "libx264rgb" THEN <<"rgb">> ELSE <<>>

\* re.sub(r"-c:v libx264", " -c:v h264_nvenc " + additional_options + " ",
\* cmd, count=1), lines 96, 108
ReplaceLibx264(cmd, additional_options) ==
    LET at == Leftmost({i \in 1 .. Len(cmd) - 1 :
                           cmd[i] = "-c:v" /\ StartsWithLibx264(cmd[i + 1])})
    IN  IF at = 0 THEN cmd
        ELSE SubSeq(cmd, 1, at - 1) \o <<"-c:v", "h264_nvenc">>
                 \o additional_options \o AfterLibx264(cmd[at + 1])
                 \o SubSeq(cmd, at + 2, Len(cmd))

\* re.sub(r"\"[^\"]*\"$", '"<replace_output>"', cmd), line 126
ReplaceOutput(cmd) ==
    IF Len(cmd) > 0 /\ cmd[Len(cmd)] \in {QUOTED_OUTPUT, QUOTED_REPLACE}
    THEN SubSeq(cmd, 1, Len(cmd) - 1) \o <<QUOTED_REPLACE>>
    ELSE cmd

Contains(options, word) == \E i \in 1 .. Len(options) : options[i] = word

\* gpu_encoding_cmd.py:47-128: the rules in the order of the list; the rule
\* of line 80 is never added, find() takes " -g .+? " literally
apply_rules(command_line, args) ==
    LET r1 == IF Contains(args.additional_options, "-cq")
              THEN RemoveOption(command_line, "-b:v") ELSE command_line
        r2 == IF Contains(args.additional_options, "-preset")
              THEN RemoveOption(r1, "-preset") ELSE r1
        r3 == IF args.remove_shortest THEN RemoveShortest(r2) ELSE r2
        r4 == ReplaceLibx264(r3, args.additional_options)
    IN  IF args.replace_output THEN ReplaceOutput(r4) ELSE r4

\* gpu_encoding_cmd.py:386-430: the command file is missing (line 388) or
\* empty (line 422), or the command is rewritten
gpu_read_command ==
    /\ gpu_pc = "start"
    /\ \E exists \in BOOLEAN :
          IF exists /\ original_cmd # <<>>
          THEN /\ modified_cmd' = apply_rules(original_cmd, gpu_args)
               /\ gpu_pc' = "rewritten"
               /\ UNCHANGED gpu_exit_code
          ELSE /\ gpu_pc' = "rejected"
               /\ gpu_exit_code' = 1
               /\ UNCHANGED modified_cmd
    /\ UNCHANGED <<original_cmd, gpu_args, gpu_executed>>
    /\ UNCHANGED <<jc_vars, lj_vars, mongo_vars, lock_vars, tool_vars>>

\* gpu_encoding_cmd.py:435-439
gpu_test_mode ==
    /\ gpu_pc = "rewritten"
    /\ gpu_args.test
    /\ gpu_pc' = "exited"
    /\ gpu_exit_code' = 0
    /\ UNCHANGED <<original_cmd, gpu_args, modified_cmd, gpu_executed>>
    /\ UNCHANGED <<jc_vars, lj_vars, mongo_vars, lock_vars, tool_vars>>

\* gpu_encoding_cmd.py:441-545: Popen runs the command, the exit code is
\* its return code, or 1 when Popen raises
gpu_execute ==
    /\ gpu_pc = "rewritten"
    /\ ~gpu_args.test
    /\ gpu_executed' = TRUE
    /\ gpu_pc' = "exited"
    /\ \E return_code \in {0, 1} : gpu_exit_code' = return_code
    /\ UNCHANGED <<original_cmd, gpu_args, modified_cmd>>
    /\ UNCHANGED <<jc_vars, lj_vars, mongo_vars, lock_vars, tool_vars>>

\* gpu_encoding_cmd is not running
GpuIdle ==
    /\ gpu_pc = "idle"
    /\ original_cmd = <<>>
    /\ gpu_args = NoArgs
    /\ modified_cmd = <<>>
    /\ gpu_executed = FALSE
    /\ gpu_exit_code = -1

(* -------------------------- add_field_to_report ------------------------- *)
\* Several processes run add_field_to_report.py on one report file. The
\* lock is filelock's SoftFileLock: acquire creates <report>.lock
\* exclusively, release removes the file at that path.

\* add_field_to_report.py:36
STALE_LOCK_AGE == 1000

\* add_field_to_report.py:4: "force remove if older than 10 seconds"
DOC_STALE_AGE == 10

\* ages of a lock file in seconds: new, older than the 10 seconds of the
\* docstring, older than STALE_LOCK_AGE
LockAges == {0, 500, 2000}

Procs == 1 .. MaxProcs

\* the creator of a lock file whose process died without releasing it
DEAD == -1

AfFields == {"file", "f1", "f2"}

\* --value_to_add
ADDED_VALUE == "x"

\* an entry of the report before any field was added
NewEntries ==
    {[k \in AfFields |-> IF k = "file" THEN v ELSE ABSENT] : v \in {"a", "./a"}}

\* --match_value, whether os.path.exists(match_value), and --new_field_name;
\* "a" may be the path of an existing file, the added value is none
AfArgs ==
    {[match_value |-> "a", match_exists |-> e, new_field_name |-> f] :
        e \in BOOLEAN, f \in {"f1", "f2"}}
    \cup {[match_value |-> ADDED_VALUE, match_exists |-> FALSE,
            new_field_name |-> f] : f \in {"f1", "f2"}}

\* os.path.abspath in the working directory: "./a" and "a" name one file
abspath(v) == IF v = "./a" THEN "a" ELSE v

\* add_field_to_report.py:127-137: some field of the entry has the value;
\* when the match value is the path of an existing file the absolute paths
\* are compared, and the strings otherwise
EntryMatches(entry, a) ==
    \E k \in AfFields :
       /\ entry[k] # ABSENT
       /\ IF a.match_exists
          THEN abspath(entry[k]) = abspath(a.match_value)
          ELSE entry[k] = a.match_value

LastMatch(rep, a, n) ==
    LET m == {j \in n .. Len(rep) : EntryMatches(rep[j], a)}
    IN  IF m = {} THEN 0 ELSE CHOOSE j \in m : \A i \in m : i <= j

\* add_field_to_report.py:126-139: the index of the first entry that
\* matches, 0 when none does
RECURSIVE FirstMatch(_, _, _)
FirstMatch(rep, a, n) ==
    IF n > Len(rep) THEN 0
    ELSE IF EntryMatches(rep[n], a) THEN n
    ELSE FirstMatch(rep, a, n + 1)

\* add_field_to_report.py:131, 135: entry[new_field_name] = added_value
AddField(rep, n, new_field_name) ==
    [rep EXCEPT ![n][new_field_name] = ADDED_VALUE]

\* add_field_to_report.py:68-73: lock.acquire(timeout=5) creates the lock
\* file when there is none, and raises Timeout when there still is one
\* after 5 seconds
lock_acquire(p) ==
    /\ apc[p] = "acquire"
    /\ IF lock_file = 0
       THEN /\ lock_file' = p
            /\ lock_age' = 0
            /\ apc' = [apc EXCEPT ![p] = "locked"]
       ELSE /\ apc' = [apc EXCEPT ![p] = "timeout"]
            /\ UNCHANGED <<lock_file, lock_age>>
    /\ UNCHANGED <<lock_timeout, elapsed, report, af_args, loaded, af_exit_code>>
    /\ UNCHANGED <<jc_vars, lj_vars, mongo_vars, gpu_vars, tool_vars>>

\* add_field_to_report.py:75-77: the age of the lock file is read
check_stale(p) ==
    /\ apc[p] = "timeout"
    /\ apc' = [apc EXCEPT ![p] =
                  IF lock_file # 0 /\ lock_age > STALE_LOCK_AGE
                  THEN "remove" ELSE "elapsed"]
    /\ UNCHANGED <<lock_file, lock_age, lock_timeout, elapsed, report,
                   af_args, loaded, af_exit_code>>
    /\ UNCHANGED <<jc_vars, lj_vars, mongo_vars, gpu_vars, tool_vars>>

\* add_field_to_report.py:78-82: os.remove removes the file that is at the
\* path now; with no file it raises and the exception is printed
remove_stale(p) ==
    /\ apc[p] = "remove"
    /\ lock_file' = 0
    /\ lock_age' = 0
    /\ apc' = [apc EXCEPT ![p] = "elapsed"]
    /\ UNCHANGED <<lock_timeout, elapsed, report, af_args, loaded, af_exit_code>>
    /\ UNCHANGED <<jc_vars, lj_vars, mongo_vars, gpu_vars, tool_vars>>

\* add_field_to_report.py:84-87 and 153-155: Timeout and exit code 5 once
\* the loop has run for lock_timeout, the sleep and another turn otherwise
check_elapsed(p) ==
    /\ apc[p] = "elapsed"
    /\ elapsed' = [elapsed EXCEPT ![p] = @ + 1]
    /\ IF elapsed[p] + 1 >= lock_timeout
       THEN /\ apc' = [apc EXCEPT ![p] = "exited"]
            /\ af_exit_code' = [af_exit_code EXCEPT ![p] = 5]
       ELSE /\ apc' = [apc EXCEPT ![p] = "acquire"]
            /\ UNCHANGED af_exit_code
    /\ UNCHANGED <<lock_file, lock_age, lock_timeout, report, af_args, loaded>>
    /\ UNCHANGED <<jc_vars, lj_vars, mongo_vars, gpu_vars, tool_vars>>

\* add_field_to_report.py:117-120: with lock (the lock is held already),
\* the report is loaded
load_report(p) ==
    /\ apc[p] = "locked"
    /\ loaded' = [loaded EXCEPT ![p] = report]
    /\ apc' = [apc EXCEPT ![p] = "loaded"]
    /\ UNCHANGED <<lock_file, lock_age, lock_timeout, elapsed, report,
                   af_args, af_exit_code>>
    /\ UNCHANGED <<jc_vars, lj_vars, mongo_vars, gpu_vars, tool_vars>>

\* add_field_to_report.py:125-147: the field is added to the first matching
\* entry of the loaded report and the report is written; with no matching
\* entry the process exits with code 2 and its lock object removes the
\* lock file
write_report(p) ==
    /\ apc[p] = "loaded"
    /\ LET n == FirstMatch(loaded[p], af_args[p], 1)
       IN  IF n = 0
           THEN /\ apc' = [apc EXCEPT ![p] = "exited"]
                /\ af_exit_code' = [af_exit_code EXCEPT ![p] = 2]
                /\ lock_file' = 0
                /\ lock_age' = 0
                /\ UNCHANGED report
           ELSE /\ report' = AddField(loaded[p], n, af_args[p].new_field_name)
                /\ apc' = [apc EXCEPT ![p] = "written"]
                /\ UNCHANGED <<af_exit_code, lock_file, lock_age>>
    /\ UNCHANGED <<lock_timeout, elapsed, af_args, loaded>>
    /\ UNCHANGED <<jc_vars, lj_vars, mongo_vars, gpu_vars, tool_vars>>

\* add_field_to_report.py:148-157: main returns, the lock object removes
\* the lock file, exit code 0
af_exit(p) ==
    /\ apc[p] = "written"
    /\ apc' = [apc EXCEPT ![p] = "exited"]
    /\ af_exit_code' = [af_exit_code EXCEPT ![p] = 0]
    /\ lock_file' = 0
    /\ lock_age' = 0
    /\ UNCHANGED <<lock_timeout, elapsed, report, af_args, loaded>>
    /\ UNCHANGED <<jc_vars, lj_vars, mongo_vars, gpu_vars, tool_vars>>

\* add_field_to_report.py:76: time passes, the lock file gets older
lock_ages ==
    /\ lock_file # 0
    /\ \E a \in LockAges : a > lock_age /\ lock_age' = a
    /\ UNCHANGED <<apc, lock_file, lock_timeout, elapsed, report, af_args,
                   loaded, af_exit_code>>
    /\ UNCHANGED <<jc_vars, lj_vars, mongo_vars, gpu_vars, tool_vars>>


(* ---------------------- merge_branch_reports.py ------------------------ *)

\* the keys of a report entry that hold strings; "status" stands for what a
\* branch adds to its entry
MbKeys == {"original_file", "remaster_file", "status"}

MbFiles == {"a", "b"}

\* an entry of the report: a file under one of the two keys, and
\* found_branch_report when it is set
MbEntry(k, v, st) ==
    [fields |-> [x \in MbKeys |-> IF x = k THEN v
                                  ELSE IF x = "status" THEN st ELSE ABSENT],
     found_branch_report |-> FALSE]

\* the entries find_files writes into the full report
FullEntries ==
    {MbEntry(k, v, ABSENT) : k \in {"original_file", "remaster_file"}, v \in MbFiles}

\* the entries a branch report file may hold: a full-report entry the
\* branch has worked on, one with both file keys, or one with neither
BranchEntries ==
    {MbEntry(k, v, "done") : k \in {"original_file", "remaster_file"}, v \in MbFiles}
    \cup {[MbEntry("original_file", "a", "done") EXCEPT
              !.fields["remaster_file"] = "b"]}
    \cup {MbEntry("status", "done", "done")}

\* what json.load may give for a branch report file: a list of one entry,
\* or an empty list
BranchReports == {<<>>} \cup {<<e>> : e \in BranchEntries}

\* match_value before its first assignment
UNBOUND == "unbound"

\* merge_branch_reports.py:61: match_value in entry.values()
InValues(v, entry) == \E k \in MbKeys : entry.fields[k] = v

\* merge_branch_reports.py:59-65: the place of the first entry that holds
\* the value, 0 when none does
FirstHolding(rep, v) ==
    LET m == {n \in 1 .. Len(rep) : InValues(v, rep[n])}
    IN  IF m = {} THEN 0 ELSE CHOOSE n \in m : \A j \in m : n <= j

\* merge_branch_reports.py:25-34: the full report is loaded; without the
\* branch report directory the process exits with code 1
mb_load ==
    /\ mb_pc = "load"
    /\ full_report' = full_report_file
    /\ \E exists \in BOOLEAN :
          IF exists
          THEN mb_pc' = "branch" /\ branch_i' = 1 /\ UNCHANGED mb_exit_code
          ELSE mb_pc' = "exited" /\ mb_exit_code' = 1 /\ UNCHANGED branch_i
    /\ UNCHANGED <<full_report_file, branch_files, match_value>>
    /\ UNCHANGED <<jc_vars, lj_vars, mongo_vars, gpu_vars, lock_vars, rt_vars, da_vars>>

\* merge_branch_reports.py:37-69: one turn of the loop over the branch
\* files. match_value is assigned only when the entry has one of the two
\* keys: it keeps the value of the turn before otherwise, and reading it
\* before any assignment raises NameError, which ends the process with
\* exit code 1
mb_branch ==
    /\ mb_pc = "branch"
    /\ branch_i <= Len(branch_files)
    /\ LET branch_report == branch_files[branch_i]
       IN  IF Len(branch_report) # 1
           THEN /\ mb_pc' = "exited" /\ mb_exit_code' = 1
                /\ UNCHANGED <<full_report, branch_i, match_value>>
           ELSE LET branch_entry == branch_report[1]
                    v == IF branch_entry.fields["original_file"] # ABSENT
                         THEN branch_entry.fields["original_file"]
                         ELSE IF branch_entry.fields["remaster_file"] # ABSENT
                         THEN branch_entry.fields["remaster_file"]
                         ELSE match_value
                    n == FirstHolding(full_report, v)
                IN  /\ match_value' = v
                    /\ IF v = UNBOUND \/ n = 0
                       THEN /\ mb_pc' = "exited" /\ mb_exit_code' = 1
                            /\ UNCHANGED <<full_report, branch_i>>
                       ELSE /\ full_report' =
                                  [full_report EXCEPT ![n] =
                                      [branch_entry EXCEPT
                                          !.found_branch_report = TRUE]]
                            /\ branch_i' = branch_i + 1
                            /\ UNCHANGED <<mb_pc, mb_exit_code>>
    /\ UNCHANGED <<full_report_file, branch_files>>
    /\ UNCHANGED <<jc_vars, lj_vars, mongo_vars, gpu_vars, lock_vars, rt_vars, da_vars>>

\* merge_branch_reports.py:71-74: after the last branch file the full
\* report is written, exit code 0
mb_write ==
    /\ mb_pc = "branch"
    /\ branch_i > Len(branch_files)
    /\ full_report_file' = full_report
    /\ mb_pc' = "exited"
    /\ mb_exit_code' = 0
    /\ UNCHANGED <<branch_files, full_report, branch_i, match_value>>
    /\ UNCHANGED <<jc_vars, lj_vars, mongo_vars, gpu_vars, lock_vars, rt_vars, da_vars>>

(* --------------------- move_files_with_report.py ----------------------- *)

RetryFunctions == {"move_file_with_retry", "write_json_with_retry"}

\* the delay of the signature and the one main's callers pass
Delays == {1, 5}

RetryLeftOnLastTurn(a, r) == a <= r

\* move_files_with_report.py:16, 32: if attempt < retries
RetryLeft(a, r) == a < r

\* move_files_with_report.py:10-21, 24-37: one turn of the for loop over
\* range(retries + 1). The try block (shutil.move, or mkdir, open and
\* json.dump) succeeds and the function returns True, or it raises and the
\* function goes on to sleep, or returns False on the last turn
rt_attempt ==
    /\ rt_pc = "attempt"
    /\ \E ok \in BOOLEAN :
          /\ outcomes' = Append(outcomes, ok)
          /\ IF ok
             THEN rt_pc' = "returned" /\ rt_result' = "True"
             ELSE IF RetryLeft(attempt, retries)
             THEN rt_pc' = "sleep" /\ UNCHANGED rt_result
             ELSE rt_pc' = "returned" /\ rt_result' = "False"
    /\ UNCHANGED <<rt_fn, retries, delay, attempt, rt_slept>>
    /\ UNCHANGED <<jc_vars, lj_vars, mongo_vars, gpu_vars, lock_vars, mb_vars, da_vars>>

\* move_files_with_report.py:18, 34 and 10, 24: time.sleep(delay), then the
\* next turn; the function ends without a return value when range is used up
rt_sleep ==
    /\ rt_pc = "sleep"
    /\ rt_slept' = rt_slept + delay
    /\ attempt' = attempt + 1
    /\ IF attempt + 1 <= retries
       THEN rt_pc' = "attempt" /\ UNCHANGED rt_result
       ELSE rt_pc' = "returned" /\ rt_result' = NONE
    /\ UNCHANGED <<rt_fn, retries, delay, outcomes>>
    /\ UNCHANGED <<jc_vars, lj_vars, mongo_vars, gpu_vars, lock_vars, mb_vars, da_vars>>

\* neither function is running
RtIdle ==
    /\ rt_fn = "move_file_with_retry"
    /\ rt_pc = "idle"
    /\ retries = 0
    /\ delay = 1
    /\ attempt = 0
    /\ outcomes = <<>>
    /\ rt_slept = 0
    /\ rt_result = NONE

(* ----------------------- distribute_avid_mxf.py ------------------------ *)

\* distribute_avid_mxf.py:94: the file count above which the next group
\* goes to a new directory
DIR_LIMIT == 4900

\* the target directories: 0 is target_base, k is target_base with the
\* number k appended
Dirs == 0 .. MaxGroups

\* files in target_base before the run
BaseCounts == {0, DIR_LIMIT - 1, DIR_LIMIT, DIR_LIMIT + 1}

\* distribute_avid_mxf.py:84, 104: current_target
current_target == target_counter

\* distribute_avid_mxf.py:16-21: the files of the directory
count_files_in_directory(d) == dir_files[d]

\* distribute_avid_mxf.py:56-58, 84-88: without files main returns,
\* otherwise it counts the files of target_base
da_start ==
    /\ da_pc = "start"
    /\ IF sorted_groups = <<>>
       THEN da_pc' = "exited" /\ UNCHANGED <<current_count, group_i>>
       ELSE /\ da_pc' = "group"
            /\ current_count' = count_files_in_directory(0)
            /\ group_i' = 1
    /\ UNCHANGED <<sorted_groups, file_i, target_counter, dir_files, moved>>
    /\ UNCHANGED <<jc_vars, lj_vars, mongo_vars, gpu_vars, lock_vars, mb_vars, rt_vars>>

\* distribute_avid_mxf.py:90-107: the next group; above the limit the next
\* numbered directory is made (or taken as it is, exist_ok=True) and the
\* count starts at 0
da_group ==
    /\ da_pc = "group"
    /\ group_i <= Len(sorted_groups)
    /\ IF current_count > DIR_LIMIT
       THEN target_counter' = target_counter + 1 /\ current_count' = 0
       ELSE UNCHANGED <<target_counter, current_count>>
    /\ file_i' = 0
    /\ da_pc' = "files"
    /\ UNCHANGED <<sorted_groups, group_i, dir_files, moved>>
    /\ UNCHANGED <<jc_vars, lj_vars, mongo_vars, gpu_vars, lock_vars, mb_vars, rt_vars>>

\* distribute_avid_mxf.py:110-117: one file of the group; shutil.move moves
\* it into current_target, or raises and the loop goes on
da_move ==
    /\ da_pc = "files"
    /\ file_i < sorted_groups[group_i]
    /\ file_i' = file_i + 1
    /\ \E ok \in BOOLEAN :
          IF ok
          THEN /\ dir_files' = [dir_files EXCEPT ![current_target] = @ + 1]
               /\ moved' = moved \cup {<<group_i, current_target>>}
          ELSE UNCHANGED <<dir_files, moved>>
    /\ UNCHANGED <<da_pc, sorted_groups, group_i, target_counter, current_count>>
    /\ UNCHANGED <<jc_vars, lj_vars, mongo_vars, gpu_vars, lock_vars, mb_vars, rt_vars>>

\* distribute_avid_mxf.py:119: current_count += group_size
da_group_end ==
    /\ da_pc = "files"
    /\ file_i = sorted_groups[group_i]
    /\ current_count' = current_count + sorted_groups[group_i]
    /\ group_i' = group_i + 1
    /\ da_pc' = "group"
    /\ UNCHANGED <<sorted_groups, file_i, target_counter, dir_files, moved>>
    /\ UNCHANGED <<jc_vars, lj_vars, mongo_vars, gpu_vars, lock_vars, mb_vars, rt_vars>>

\* distribute_avid_mxf.py:121-147: the statistics are logged, main returns
da_end ==
    /\ da_pc = "group"
    /\ group_i > Len(sorted_groups)
    /\ da_pc' = "exited"
    /\ UNCHANGED <<sorted_groups, group_i, file_i, target_counter,
                   current_count, dir_files, moved>>
    /\ UNCHANGED <<jc_vars, lj_vars, mongo_vars, gpu_vars, lock_vars, mb_vars, rt_vars>>

\* distribute_avid_mxf is not running
DaIdle ==
    /\ da_pc = "idle"
    /\ sorted_groups = <<>>
    /\ group_i = 0
    /\ file_i = 0
    /\ target_counter = 0
    /\ current_count = 0
    /\ dir_files = <<>>
    /\ moved = {}

\* merge_branch_reports is not running
MbIdle ==
    /\ mb_pc = "idle"
    /\ full_report_file = <<>>
    /\ branch_files = <<>>
    /\ full_report = <<>>
    /\ branch_i = 0
    /\ match_value = UNBOUND
    /\ mb_exit_code = -1

\* no add_field_to_report process exists
LockIdle ==
    /\ apc = [p \in Procs |-> "idle"]
    /\ lock_file = 0
    /\ lock_age = 0
    /\ lock_timeout = 1
    /\ elapsed = [p \in Procs |-> 0]
    /\ report = <<>>
    /\ af_args = [p \in Procs |->
                     [match_value |-> "a", match_exists |-> FALSE,
                      new_field_name |-> "f1"]]
    /\ loaded = [p \in Procs |-> <<>>]
    /\ af_exit_code = [p \in Procs |-> -1]

\* no MongoUpsert object exists
MongoIdle ==
    /\ STORES = <<>>
    /\ ID_COUNTER = 1
    /\ filter_query = [k \in MongoKeys |-> ABSENT]
    /\ update_data = [k \in MongoKeys |-> ABSENT]
    /\ upsert_result = NoResult
    /\ upserts = 0

\* no file tool is running
ToolIdle == MbIdle /\ RtIdle /\ DaIdle

ExtIdle == MongoIdle /\ GpuIdle /\ LockIdle /\ ToolIdle

(* --------------------------- specifications ---------------------------- *)

\* launch_job is not running
LjIdle ==
    /\ input_files = 0
    /\ lpc = "off"
    /\ idx = 0
    /\ post_answer = <<>>
    /\ launched_jobs = <<>>
    /\ mon = 0
    /\ retry_count = 0
    /\ lj_results = <<>>
    /\ summaries = 0
    /\ lj_exit_code = -1
    /\ lj_posts = <<>>
    /\ lj_gets = 0
    /\ poll_frequency = POLL_SLEEP
    /\ variables_list = <<>>
    /\ variables_from_job_id = NONE
    /\ fetched_vars = <<>>
    /\ prepared_vars = <<>>
    /\ lj_slept = 0

InitWorkers ==
    /\ LjIdle
    /\ ExtIdle
    /\ wpc = [i \in FileIdx |-> "queued"]
    /\ wf_object = [i \in FileIdx |-> <<>>]
    /\ job_id = [i \in FileIdx |-> NONE]
    /\ consecutive_failures = [i \in FileIdx |-> 0]
    /\ status = [i \in FileIdx |-> NONE]
    /\ output_value = [i \in FileIdx |-> NONE]
    /\ future = [i \in FileIdx |-> Pending]
    /\ yielded = {}
    /\ results = <<>>
    /\ mainpc = "find_files"
    /\ exit_code = -1
    /\ posts = [i \in FileIdx |-> 0]
    /\ poll_loops = [i \in FileIdx |-> 0]
    /\ last_call = [i \in FileIdx |-> NONE]
    /\ writes = {}

\* a whole run of jobcontroller
Init ==
    /\ files \in 0 .. MaxFiles
    \* one worker at a time, and the largest pool
    /\ concurrent_file_processes \in {1, MaxConcurrent}
    \* the least and the largest --http_max_retries
    /\ http_max_retries \in {1, MaxRetriesCfg}
    /\ engine = "small"
    /\ InitWorkers

Next ==
    \/ find_files
    \/ \E i \in FileIdx : pool_start(i)
    \/ \E i \in FileIdx : setup_logging(i)
    \/ \E i \in FileIdx : prepare(i)
    \/ \E i \in FileIdx : submit_encoding_job(i)
    \/ \E i \in FileIdx : wait_initial_sleep(i)
    \/ \E i \in FileIdx : wait_poll(i)
    \/ \E i \in FileIdx : wait_sleep(i)
    \/ \E i \in FileIdx : postprocess(i)
    \/ \E i \in FileIdx : collect(i)
    \/ pool_join
    \/ merge_branch_reports
    \/ create_aaf
    \/ summary

Spec == Init /\ [][Next]_vars

\* one file, whose job may hold any wf_object
InitPoll ==
    /\ files = 1
    /\ concurrent_file_processes = 1
    /\ http_max_retries \in 1 .. MaxRetriesCfg
    /\ engine = "any"
    /\ InitWorkers

PollSpec == InitPoll /\ [][Next]_vars

\* the worker processes and main keep running: a step that can be taken is
\* eventually taken
FairPollSpec == PollSpec /\ WF_vars(Next)

\* jobcontroller is not running
JcIdle ==
    /\ files = 0
    /\ concurrent_file_processes = 1
    /\ http_max_retries = 1
    /\ engine = "small"
    /\ wf_object = <<>>
    /\ wpc = <<>>
    /\ job_id = <<>>
    /\ consecutive_failures = <<>>
    /\ status = <<>>
    /\ output_value = <<>>
    /\ future = <<>>
    /\ yielded = {}
    /\ results = <<>>
    /\ mainpc = "off"
    /\ exit_code = -1
    /\ posts = <<>>
    /\ poll_loops = <<>>
    /\ last_call = <<>>
    /\ writes = {}

\* launch_job before main's try block, for the given numbers of input
\* items, --variable options and reference jobs
LaunchStart(items, pairs, refs) ==
    /\ JcIdle
    /\ ExtIdle
    /\ input_files \in items
    /\ poll_frequency \in PollFrequencies
    /\ variables_list \in pairs
    /\ variables_from_job_id \in refs
    /\ fetched_vars = <<>>
    /\ prepared_vars = <<>>
    /\ lj_slept = 0
    /\ lpc = "load_input_file"
    /\ idx = 0
    /\ post_answer = [k \in ItemIdx |-> NONE]
    /\ launched_jobs = <<>>
    /\ mon = 0
    /\ retry_count = 0
    /\ lj_results = <<>>
    /\ summaries = 0
    /\ lj_exit_code = -1
    /\ lj_posts = [k \in ItemIdx |-> 0]
    /\ lj_gets = 0

\* a run of launch_job without --variable and --variables_from_job_id
LaunchInit == LaunchStart(0 .. MaxItems, {<<>>}, {NONE})

\* a run of launch_job for one input item, with any --variable options and
\* with or without --variables_from_job_id
PrepInit ==
    LaunchStart({1}, SeqsUpTo(VariableArgs, MaxLjVars), {NONE, REF_JOB})

LaunchNext ==
    \/ load_input_file
    \/ prepare_variables
    \/ launch_jobs_post
    \/ launch_jobs_return
    \/ poll_job_completion
    \/ poll_job_timeout
    \/ write_summary
    \/ lj_return

LaunchSpec == LaunchInit /\ [][LaunchNext]_vars

PrepSpec == PrepInit /\ [][LaunchNext]_vars

\* launch_job runs in one thread and every call it waits for returns
\* (timeout=10, time.sleep): a step that can be taken is eventually taken
FairLaunchSpec == LaunchSpec /\ WF_vars(LaunchNext)

\* mongo_upsert.py:29-39: a new MongoUpsert object on an empty store, and the
\* filter its caller goes on to use
MongoInit ==
    /\ JcIdle
    /\ LjIdle
    /\ GpuIdle
    /\ LockIdle
    /\ ToolIdle
    /\ STORES = <<>>
    /\ ID_COUNTER = 1
    /\ filter_query \in MongoDicts
    /\ update_data = [k \in MongoKeys |-> ABSENT]
    /\ upsert_result = NoResult
    /\ upserts = 0

MongoNext == upsert

MongoSpec == MongoInit /\ [][MongoNext]_vars

\* gpu_encoding_cmd.py:320-323: one run on a command file
GpuInit ==
    /\ JcIdle
    /\ LjIdle
    /\ MongoIdle
    /\ LockIdle
    /\ ToolIdle
    /\ gpu_pc = "start"
    /\ original_cmd \in Commands
    /\ gpu_args \in GpuArgs
    /\ modified_cmd = <<>>
    /\ gpu_executed = FALSE
    /\ gpu_exit_code = -1

GpuNext == gpu_read_command \/ gpu_test_mode \/ gpu_execute

GpuSpec == GpuInit /\ [][GpuNext]_vars

\* add_field_to_report.py:91-112: the processes start on one report file;
\* there is no lock file, or one that a process left behind
LockInit ==
    /\ JcIdle
    /\ LjIdle
    /\ MongoIdle
    /\ GpuIdle
    /\ ToolIdle
    /\ apc = [p \in Procs |-> "acquire"]
    /\ \/ lock_file = 0 /\ lock_age = 0
       \/ lock_file = DEAD /\ lock_age \in LockAges
    /\ lock_timeout \in 1 .. MaxLockTimeout
    /\ elapsed = [p \in Procs |-> 0]
    /\ report \in SeqsUpTo(NewEntries, MaxEntries)
    /\ af_args \in [Procs -> AfArgs]
    /\ loaded = [p \in Procs |-> <<>>]
    /\ af_exit_code = [p \in Procs |-> -1]

LockNext ==
    \/ \E p \in Procs :
          \/ lock_acquire(p)
          \/ check_stale(p)
          \/ remove_stale(p)
          \/ check_elapsed(p)
          \/ load_report(p)
          \/ write_report(p)
          \/ af_exit(p)
    \/ lock_ages

LockSpec == LockInit /\ [][LockNext]_vars

\* add_field_to_report.py:91-112: the first two processes start on one
\* report file that has no lock file, with the least --lock_timeout
FieldInit ==
    /\ JcIdle
    /\ LjIdle
    /\ MongoIdle
    /\ GpuIdle
    /\ ToolIdle
    /\ apc = [p \in Procs |-> IF p <= 2 THEN "acquire" ELSE "exited"]
    /\ lock_file = 0
    /\ lock_age = 0
    /\ lock_timeout = 1
    /\ elapsed = [p \in Procs |-> 0]
    /\ report \in SeqsUpTo(NewEntries, MaxEntries)
    /\ af_args \in [Procs -> AfArgs]
    /\ \A p \in Procs : p > 2 => af_args[p] = af_args[1]
    /\ loaded = [p \in Procs |-> <<>>]
    /\ af_exit_code = [p \in Procs |-> -1]

FieldSpec == FieldInit /\ [][LockNext]_vars

\* merge_branch_reports.py:16-23: one run on a full report and a directory
\* of branch report files
MbInit ==
    /\ JcIdle
    /\ LjIdle
    /\ MongoIdle
    /\ GpuIdle
    /\ LockIdle
    /\ RtIdle
    /\ DaIdle
    /\ mb_pc = "load"
    /\ full_report_file \in SeqsUpTo(FullEntries, MaxEntries)
    /\ branch_files \in SeqsUpTo(BranchReports, MaxBranches)
    /\ full_report = <<>>
    /\ branch_i = 0
    /\ match_value = UNBOUND
    /\ mb_exit_code = -1

MbNext == mb_load \/ mb_branch \/ mb_write

MbSpec == MbInit /\ [][MbNext]_vars

\* move_files_with_report.py:9, 23: a call of one of the two functions
\* with retries >= 0
RetryInit ==
    /\ JcIdle
    /\ LjIdle
    /\ MongoIdle
    /\ GpuIdle
    /\ LockIdle
    /\ MbIdle
    /\ DaIdle
    /\ rt_fn \in RetryFunctions
    /\ rt_pc = "attempt"
    /\ retries \in 0 .. MaxMoveRetries
    /\ delay \in Delays
    /\ attempt = 0
    /\ outcomes = <<>>
    /\ rt_slept = 0
    /\ rt_result = NONE

RetryNext == rt_attempt \/ rt_sleep

RetrySpec == RetryInit /\ [][RetryNext]_vars

\* distribute_avid_mxf.py:35-88: one run; target_base and the numbered
\* directories may hold files of an earlier run
DaInit ==
    /\ JcIdle
    /\ LjIdle
    /\ MongoIdle
    /\ GpuIdle
    /\ LockIdle
    /\ MbIdle
    /\ RtIdle
    /\ da_pc = "start"
    /\ sorted_groups \in SeqsUpTo(1 .. MaxGroupSize, MaxGroups)
    /\ group_i = 0
    /\ file_i = 0
    /\ target_counter = 0
    /\ current_count = 0
    /\ \E b \in BaseCounts, e \in {0, 1} :
          dir_files = [d \in Dirs |-> IF d = 0 THEN b ELSE e]
    /\ moved = {}

DaNext == da_start \/ da_group \/ da_move \/ da_group_end \/ da_end

DaSpec == DaInit /\ [][DaNext]_vars

\* every turn of the acquire loop ends (lock.acquire(timeout=5),
\* time.sleep(1)) and the operating system keeps scheduling the processes:
\* a step that can be taken is eventually taken
FairLockSpec == LockSpec /\ WF_vars(LockNext)

(* ------------------------------- claims -------------------------------- *)

PollLoop == {"get", "sleep"}

\* the variables of all nodes, in scan order
RECURSIVE Flatten(_)
Flatten(nodes) ==
    IF nodes = <<>> THEN <<>> ELSE Head(nodes) \o Flatten(Tail(nodes))

\* the positions of the awaited variable among the variables of all nodes
AwaitedAt(nodes) ==
    {k \in 1 .. Len(Flatten(nodes)) : Flatten(nodes)[k].name = AWAITED}

Least(S) == CHOOSE k \in S : \A m \in S : k <= m

Greatest(S) == CHOOSE k \in S : \A m \in S : m <= k

\* the wait returned a value taken from a finished answer
ValueExtracted(i) == status[i] = "finished" /\ output_value[i] # NONE

\* C1: a file's outcome is 'success' if and only if wait_for_job_completion
\* returned the awaited variable's value from a finished answer; when the
\* wait ends without a value the outcome is not 'success' (a value followed
\* by an exception while the encoded files are moved gives 'error').
C1_SuccessIffValueExtracted ==
    \A i \in FileIdx :
        /\ future[i].status = "success" => ValueExtracted(i)
        /\ (ValueExtracted(i) /\ future[i].status = "error")
              => future[i].error = "move_files"

\* C2: the results launch_job summarizes hold exactly one outcome per input
\* item, also for the items whose POST failed or carried no job_id.
C2_OneOutcomePerItem ==
    summaries > 0 =>
        /\ Len(lj_results) = input_files
        /\ \A k \in ItemIdx :
              Cardinality({r \in 1 .. Len(lj_results) :
                              lj_results[r].input_file = k}) = 1

\* the worker pool ran and has finished
PoolFinished ==
    /\ mainpc \notin {"find_files", "pool"}
    /\ files > 0
    /\ \A i \in FileIdx : wpc[i] = "done"

\* C3: once the worker pool has finished, results holds exactly one outcome
\* per file index, whatever failed and wherever it was raised.
C3_OneResultPerFile ==
    PoolFinished =>
        /\ Len(results) = files
        /\ \A i \in FileIdx :
              Cardinality({k \in 1 .. Len(results) : results[k].idx = i}) = 1

C3_Witness ==
    /\ PoolFinished
    /\ \E i, j \in FileIdx :
          /\ future[i].status = "exception"
          /\ future[j].status = "error"

\* input item k was submitted and its job reached the success state
ItemSucceeded(k) ==
    /\ post_answer[k] = "job_id"
    /\ \E r \in 1 .. Len(lj_results) :
          /\ lj_results[r].input_file = k
          /\ lj_results[r].state = "1"

\* C4: launch_job, given at least one input item, exits with code 0 if and
\* only if every input item was submitted and its job reached the success
\* state.
C4_ExitZeroIffAllSucceeded ==
    (lpc = "exited" /\ input_files > 0) =>
        (lj_exit_code = 0 <=> \A k \in ItemIdx : ItemSucceeded(k))

\* C5: when the engine reports error or failed for the job of a file, the
\* results count that file as an error and the exit code is not 0.
C5_EngineErrorFailsRun ==
    \A i \in FileIdx :
        status[i] \in {"error", "failed"} =>
            /\ \A k \in 1 .. Len(results) :
                  results[k].idx = i => results[k].status # "success"
            /\ mainpc = "exited" => exit_code # 0

\* C6: the total wait is bounded: the poll loop does not go on forever with
\* every answer a 200 whose status is not terminal (the failure counter
\* staying 0); it ends, timed out.
C6_BoundedTotalWait ==
    []<>(~(wpc[0] \in PollLoop /\ consecutive_failures[0] = 0))

C8_ReturnsFirstMatch ==
    \A i \in FileIdx :
        (wpc[i] = "postprocess" /\ status[i] = "finished"
            /\ AwaitedAt(wf_object[i]) # {}) =>
        output_value[i] = Flatten(wf_object[i])[Least(AwaitedAt(wf_object[i]))].data

C8_Witness ==
    \E i \in FileIdx :
        /\ wpc[i] = "postprocess"
        /\ status[i] = "finished"
        /\ Cardinality(AwaitedAt(wf_object[i])) >= 2
        /\ Least(AwaitedAt(wf_object[i])) > 1
        /\ Flatten(wf_object[i])[Least(AwaitedAt(wf_object[i]))].data
              # Flatten(wf_object[i])[Greatest(AwaitedAt(wf_object[i]))].data
        /\ output_value[i] # NONE

\* C9: a finished answer whose wf_object holds no awaited variable ends the
\* poll loop with None, and the loop is not entered again.
C9_FinishedWithoutVariable ==
    \A i \in FileIdx :
        status[i] = "finished" =>
            /\ wpc[i] \notin PollLoop
            /\ (wpc[i] = "postprocess" /\ AwaitedAt(wf_object[i]) = {})
                  => output_value[i] = NONE

C9_Witness ==
    \E i \in FileIdx :
        /\ wpc[i] = "postprocess"
        /\ status[i] = "finished"
        /\ wf_object[i] # <<>>
        /\ Flatten(wf_object[i]) # <<>>
        /\ AwaitedAt(wf_object[i]) = {}
        /\ output_value[i] = NONE

\* C10: the first answer with status error or failed ends the poll loop in
\* that iteration with None: no sleep and no GET follow.
C10_FailedStatusEndsLoop ==
    \A i \in FileIdx :
        status[i] \in {"error", "failed"} =>
            /\ wpc[i] \in {"postprocess", "done"}
            /\ output_value[i] = NONE

C10_Witness ==
    \E i \in FileIdx : status[i] = "error" /\ wpc[i] = "postprocess"

\* C11: when the POST answers 200 without a job_id, no status GET is issued
\* for that file: wait_for_job_completion is never running with job_id None.
C11_NoJobIdNeverPolled ==
    \A i \in FileIdx :
        job_id[i] = NONE => wpc[i] \notin {"initial_sleep", "get", "sleep"}

\* C12: at every moment at most concurrent_file_processes files are in
\* flight (their process_file call started and not yet finished).
C12_AtMostMInFlight ==
    Cardinality({i \in FileIdx : InFlight(i)}) <= concurrent_file_processes

C12_Witness ==
    /\ files > concurrent_file_processes
    /\ Cardinality({i \in FileIdx : InFlight(i)}) = concurrent_file_processes
    /\ \E i \in FileIdx : wpc[i] = "done"

\* an exception was raised while file i was processed
Raised(i) == future[i].error # ""

\* C13: an exception raised while a file is processed becomes that file's
\* outcome, with status 'error' and the exception's text, and no other
\* file's outcome carries it; main leaves the pool only when every file has
\* its own outcome.
C13_ExceptionBecomesErrorOutcome ==
    /\ \A i \in yielded :
          Raised(i) =>
            \E k \in 1 .. Len(results) :
                /\ results[k].idx = i
                /\ results[k].status = "error"
                /\ results[k].error = future[i].error
    /\ \A k \in 1 .. Len(results) :
          results[k].status = "error" =>
             results[k].error = future[results[k].idx].error
    /\ \A i \in FileIdx : InFlight(i) => mainpc = "pool"
    /\ mainpc \in {"merge", "create_aaf", "summary"} =>
          \A i \in FileIdx :
             Done(i) /\ \E k \in 1 .. Len(results) : results[k].idx = i

C13_Witness ==
    /\ mainpc = "merge"
    /\ \E i, j \in FileIdx :
          /\ future[i].status = "exception"
          /\ future[j].status = "success"
          /\ \E k \in 1 .. Len(results) :
                results[k].idx = j /\ results[k].status = "success"

\* the steps of process_file that come before the submission
BeforeSubmit == {"setup_logging", "prepare"}

C15_SummaryOnceAfterAllTerminal ==
    /\ summaries <= 1
    /\ summaries = 1 => (lpc \in {"verdict", "exited"} /\ mon > Len(launched_jobs))
    /\ (lpc = "exited" /\ input_files > 0) => summaries = 1

\* C16: the engine receives at most one POST per file, and a file whose
\* submission failed (exception, non-200 answer, answer without job_id) is
\* not polled.
C16_OnePostNoPollAfterFailure ==
    \A i \in FileIdx :
        /\ posts[i] <= 1
        /\ (posts[i] = 1 /\ future[i].error = "submit") => poll_loops[i] = 0
        /\ (poll_loops[i] = 1 /\ wpc[i] \in PollLoop) => job_id[i] = JobIdOf(i)

\* C17: the consecutive-failure counter is 0 after every status call that
\* succeeded, it grows by at most one per call and only on a failing call,
\* and the wait gives up after a failing call only with the counter at
\* max_retries: failures separated by a success do not add up.
C17_CounterResetOnSuccess ==
    /\ [](\A i \in FileIdx :
            /\ last_call[i] = "ok" => consecutive_failures[i] = 0
            /\ (wpc[i] = "postprocess" /\ last_call[i] = "failed") =>
                  consecutive_failures[i] = http_max_retries)
    /\ [][\A i \in FileIdx :
            /\ consecutive_failures'[i] <= consecutive_failures[i] + 1
            /\ consecutive_failures'[i] > consecutive_failures[i] =>
                  last_call'[i] = "failed"]_vars

C17_Witness ==
    \E i \in FileIdx :
        /\ http_max_retries >= 2
        /\ status[i] = "running"
        /\ last_call[i] = "failed"
        /\ wpc[i] = "postprocess"
        /\ consecutive_failures[i] = http_max_retries

\* the result monitor_jobs stored for the job it was polling
ResultOf(res, job) ==
    res[CHOOSE r \in 1 .. Len(res) : res[r].job_id = job.job_id]

\* C18: poll_job_completion always terminates: a job receives at most
\* poll_timeout // 60 status GETs, every GET that does not return the entry
\* counts, None is returned exactly when the limit is reached, a job entry is
\* returned only with a state that is not null, and the run ends.
C18_PollTerminates ==
    /\ [](lj_gets <= MaxPollRetries /\ retry_count <= MaxPollRetries)
    /\ [][(lpc = "monitor_jobs" /\ mon <= Len(launched_jobs)) =>
            \/ mon' = mon /\ lj_gets' = lj_gets + 1
            \/ /\ mon' = mon + 1
               /\ LET res == ResultOf(lj_results', launched_jobs[mon])
                  IN  \/ res.state \in {"1", "2"} /\ lj_gets < MaxPollRetries
                      \/ res.state = NONE /\ lj_gets = MaxPollRetries]_vars
    /\ <>(lpc = "exited")

C18_Witness ==
    /\ lpc = "exited"
    /\ \E r, q \in 1 .. Len(lj_results) :
          lj_results[r].state = NONE /\ lj_results[q].state = "2"

\* C19: every HTTP call to the engine has a bounded timeout: no worker is
\* ever blocked in a call that does not return.
C19_EveryCallTimesOut ==
    \A i \in FileIdx : wpc[i] # "blocked"

\* C20: a polled job's status is 'success' exactly when the state of its
\* history entry is 1 and 'failed' for any other state; an entry is taken
\* from a history exactly when the history holds one with the job's id and
\* a state that is not null, otherwise the job counts as not finished.
C20_SuccessIffStateOne ==
    /\ \A r \in 1 .. Len(lj_results) :
          /\ lj_results[r].status = "success" <=> lj_results[r].state = "1"
          /\ lj_results[r].status \in {"success", "failed"}
          /\ lj_results[r].state # "null"
    /\ \A history \in Histories : \A k \in ItemIdx :
          LET found == FindEntry(history, JobIdOf(k))
          IN  /\ found = <<>> <=>
                    ~\E n \in 1 .. Len(history) :
                        history[n].job_id = JobIdOf(k) /\ history[n].state # "null"
              /\ found # <<>> =>
                    found[1].job_id = JobIdOf(k) /\ found[1].state # "null"

C20_Witness ==
    /\ lpc = "exited"
    /\ \E r, q \in 1 .. Len(lj_results) :
          /\ lj_results[r].state = "1" /\ lj_results[r].status = "success"
          /\ lj_results[q].state = "2" /\ lj_results[q].status = "failed"

\* C21: the waiting time between two consecutive status polls of a job is
\* the configured poll_frequency.
C21_SleepsPollFrequency ==
    lj_slept # 0 => lj_slept = poll_frequency

\* prepare_variables has returned
Prepared == lpc \notin {"load_input_file", "prepare_variables"}

\* the list fetch_variables_from_job returned, empty for None
FetchedList == IF fetched_vars = <<>> THEN <<>> ELSE fetched_vars[1]

\* position k of the prepared variables holds the caller's pair number n
HoldsPair(k, n) ==
    /\ prepared_vars[k].name = variables_list[n][1]
    /\ prepared_vars[k].data = variables_list[n][2]

\* C22: prepare_variables returns the fetched variables in their order,
\* followed by every caller-supplied variable in command-line order; the
\* length is the sum of both lengths, also when names repeat.
C22_FetchedThenCaller ==
    Prepared =>
        /\ Len(prepared_vars) = Len(FetchedList) + Len(variables_list)
        /\ \A k \in 1 .. Len(FetchedList) : prepared_vars[k] = FetchedList[k]
        /\ \A n \in 1 .. Len(variables_list) : HoldsPair(Len(FetchedList) + n, n)

C22_Witness ==
    /\ Prepared
    /\ Len(FetchedList) = 2
    /\ Len(variables_list) = 2
    /\ FetchedList[1] # FetchedList[2]
    /\ variables_list[1][1] = FetchedList[1].name
    /\ variables_list[1][2] # FetchedList[1].data
    /\ variables_list[2] # variables_list[1]

\* C23: when the reference job is not among the running tickets, or the
\* tickets call fails, the submitted variables are exactly the caller's, and
\* the run goes on: every input item is submitted.
C23_MissingReferenceJob ==
    (Prepared /\ variables_from_job_id # NONE /\ fetched_vars = <<>>) =>
        /\ Len(prepared_vars) = Len(variables_list)
        /\ \A n \in 1 .. Len(variables_list) : HoldsPair(n, n)
        /\ lpc # "launch_jobs" => \A k \in ItemIdx : lj_posts[k] = 1

C23_Witness ==
    /\ lpc = "exited"
    /\ variables_from_job_id # NONE
    /\ fetched_vars = <<>>
    /\ Len(variables_list) = 2
    /\ lj_exit_code = 0

\* the positions of the documents that match the caller's filter
Matching(store) == {n \in 1 .. Len(store) : Matches(store[n], filter_query)}

\* the data gives no key of the filter another value
KeepsFilterKeys(data) ==
    \A k \in MongoKeys :
        (filter_query[k] # ABSENT /\ data[k] # ABSENT) => data[k] = filter_query[k]

\* the document at position n holds the data
HoldsData(store, n, data) ==
    \A k \in MongoKeys : data[k] # ABSENT => store[n].fields[k] = data[k]

\* what an upsert call did, given the store before and after it
InsertedOne ==
    /\ Len(STORES') = Len(STORES) + 1
    /\ upsert_result'.upserted_id # NONE
    /\ upsert_result'.matched_count = 0

ModifiedOne ==
    /\ Len(STORES') = Len(STORES)
    /\ upsert_result'.upserted_id = NONE
    /\ upsert_result'.matched_count = 1
    /\ upsert_result'.modified_count = 1

\* C24 as stated: the first upsert with a filter inserts one document, every
\* later upsert with that filter matches and modifies it, and after any
\* sequence of upserts exactly one document matches the filter.
C24_UpsertThenUpdate ==
    /\ [](upserts > 0 => Cardinality(Matching(STORES)) = 1)
    /\ [][upserts' = upserts + 1 =>
             IF upserts = 0 THEN InsertedOne ELSE ModifiedOne]_vars

\* C24 amended: an upsert inserts one document when none matches the filter
\* and modifies the first matching one otherwise; when its data gives no key
\* of the filter another value, exactly one document matches the filter
\* afterwards and holds the data.
C24_UpsertKeepingFilterKeys ==
    /\ [](/\ Cardinality(Matching(STORES)) <= 1
          /\ (upserts > 0 /\ KeepsFilterKeys(update_data)) =>
                /\ Cardinality(Matching(STORES)) = 1
                /\ \A n \in Matching(STORES) : HoldsData(STORES, n, update_data))
    /\ [][upserts' = upserts + 1 =>
             IF Matching(STORES) = {} THEN InsertedOne ELSE ModifiedOne]_vars

C24_Witness ==
    /\ upserts = 2
    /\ Len(STORES) = 1
    /\ filter_query["test_id"] = "a"
    /\ upsert_result.matched_count = 1
    /\ update_data["message"] = "b"
    /\ STORES[1].fields["message"] = "b"
    /\ STORES[1].date_modified > STORES[1].date_created

\* number of places where the words a, b follow each other in cmd
CountOf(cmd, a, b) ==
    Cardinality({i \in 1 .. Len(cmd) - 1 : cmd[i] = a /\ cmd[i + 1] = b})

\* the words w are in cmd, one after the other
HasWords(cmd, w) ==
    \E i \in 0 .. Len(cmd) - Len(w) : SubSeq(cmd, i + 1, i + Len(w)) = w

\* C25: a test-mode run of gpu_encoding_cmd that rewrote its command never
\* executes it and exits with code 0; where the command had "-c:v libx264"
\* the rewritten one has "-c:v h264_nvenc" followed by the additional
\* options; every other video codec and "-metadata creation_time=now" are
\* in the rewritten command as often as in the original one.
C25_TestModeRewrite ==
    (gpu_args.test /\ gpu_pc \in {"rewritten", "exited"}) =>
        /\ ~gpu_executed
        /\ gpu_pc = "exited" => gpu_exit_code = 0
        /\ CountOf(original_cmd, "-c:v", "libx264") > 0 =>
              HasWords(modified_cmd,
                       <<"-c:v", "h264_nvenc">> \o gpu_args.additional_options)
        /\ \A c \in VideoCodecs \ {"libx264"} :
              CountOf(modified_cmd, "-c:v", c) = CountOf(original_cmd, "-c:v", c)
        /\ CountOf(modified_cmd, "-metadata", "creation_time=now")
              = CountOf(original_cmd, "-metadata", "creation_time=now")

\* the processes inside the read-modify-write section of lines 117-148
InSection == {p \in Procs : apc[p] \in {"locked", "loaded", "written"}}

\* C26: at most one add_field_to_report process is inside the
\* read-modify-write section at any time, and once all processes have
\* exited the report holds the field of every process that exited with
\* code 0.
C26_NoLostUpdate ==
    /\ Cardinality(InSection) <= 1
    /\ (\A p \in Procs : apc[p] = "exited") =>
          \A p \in Procs :
             af_exit_code[p] = 0 =>
                \E n \in 1 .. Len(report) :
                   report[n][af_args[p].new_field_name] = ADDED_VALUE

\* every outcome main collected is 'success'
AllSuccess == \A k \in 1 .. Len(results) : results[k].status = "success"

\* the worker pool has finished and main has exited
ExitedAfterPool == mainpc = "exited" /\ files > 0 /\ yielded = FileIdx

WritersOf(f) == {w \in FileIdx : <<w, f>> \in writes}

\* C28: the report merge starts only after every worker has finished; a
\* worker writes only the branch report report_<index>.json of its own
\* index, so no two workers write the same report file and no worker writes
\* the full report.
C28_WorkersWriteOwnBranchReport ==
    /\ mainpc \in {"merge", "create_aaf", "summary"} =>
          \A i \in FileIdx : wpc[i] = "done" /\ Done(i)
    /\ \A i \in FileIdx : mainpc \notin {"pool", "find_files"} => ~InFlight(i)
    /\ \A w \in FileIdx :
          \A pair \in writes :
             pair[1] = w => pair[2] = "report_" \o ToString(w) \o ".json"
    /\ \A pair \in writes : Cardinality(WritersOf(pair[2])) <= 1
    /\ WritersOf(FULL_REPORT) = {}

C28_Witness ==
    /\ mainpc = "merge"
    /\ files = MaxFiles
    /\ \A i \in FileIdx : <<i, ReportBranchFile(i)>> \in writes

\* C29: wait_for_job_completion does not poll for ever when every iteration
\* fails: max_retries failing iterations in a row end the loop, so the loop
\* is again and again either left or past an iteration that did not fail.
C29_FailingIterationsEndLoop ==
    []<>(~(wpc[0] \in PollLoop /\ last_call[0] = "failed"))

\* a status GET has been sent or a job has got its result
PollingBegun == lj_gets > 0 \/ lj_results # <<>> \/ mon > 1

\* C30: launch_job has sent the POST of every input item before its first
\* status poll, and it polls the launched jobs one after another in launch
\* order: while job number mon is polled, exactly the jobs launched before
\* it have their result and no later job has been polled.
C30_SubmitAllThenPollInOrder ==
    /\ [](/\ (PollingBegun \/ lpc \in {"monitor_jobs", "verdict"}) =>
               /\ idx = input_files
               /\ \A k \in ItemIdx : lj_posts[k] = 1
          /\ \A k, l \in 1 .. Len(launched_jobs) :
               k < l => launched_jobs[k].input_file < launched_jobs[l].input_file
          /\ lpc = "monitor_jobs" =>
               /\ Len(lj_results) = mon - 1
               /\ \A k \in 1 .. mon - 1 :
                     lj_results[k].job_id = launched_jobs[k].job_id
          /\ lj_gets > 0 => lpc = "monitor_jobs" /\ mon <= Len(launched_jobs))
    /\ [][/\ lj_posts' # lj_posts => ~PollingBegun /\ lpc = "launch_jobs"
          /\ mon' # mon => mon' = mon + 1
          /\ lj_results' # lj_results =>
                /\ Len(lj_results') = Len(lj_results) + 1
                /\ lj_results'[mon].job_id = launched_jobs[mon].job_id
                /\ \A k \in 1 .. Len(lj_results) : lj_results'[k] = lj_results[k]]_vars

\* every input item is submitted and none is terminal: the first job is
\* being polled
C30_Witness ==
    /\ lpc = "monitor_jobs"
    /\ input_files = MaxItems
    /\ Len(launched_jobs) = input_files
    /\ mon = 1
    /\ lj_gets > 0
    /\ lj_results = <<>>

\* C31: launch_job exits with code 1, with no status poll and no summary,
\* when the input list is empty or no POST returned a job id; with an empty
\* input list it has sent no POST either.
C31_NothingToMonitorExitsOne ==
    (lpc = "exited" /\ (input_files = 0 \/ launched_jobs = <<>>)) =>
        /\ lj_exit_code = 1
        /\ ~PollingBegun /\ mon = 0 /\ retry_count = 0
        /\ summaries = 0
        /\ input_files = 0 => idx = 0 /\ post_answer = <<>> /\ lj_posts = <<>>

\* every item was posted and no answer held a job id
C31_Witness ==
    /\ lpc = "exited"
    /\ input_files = MaxItems
    /\ launched_jobs = <<>>
    /\ \A k \in ItemIdx : lj_posts[k] = 1
    /\ lj_exit_code = 1

\* C32: every add_field_to_report process comes to its end; a process gives
\* up with exit code 5 only once its elapsed wait has reached the lock
\* timeout, and the report is then as it was; and the process that removes
\* a stale lock file goes on to acquire the lock instead of giving up.
C32_LockLoopEndsAndStaleLockIsTaken ==
    /\ <>(\A p \in Procs : apc[p] = "exited")
    /\ [][\A p \in Procs :
             (apc[p] # "exited" /\ apc'[p] = "exited" /\ af_exit_code'[p] = 5) =>
                (elapsed'[p] >= lock_timeout /\ report' = report)]_vars
    /\ [][\A p \in Procs :
             (apc[p] = "remove" /\ apc'[p] = "elapsed") =>
                elapsed[p] + 1 < lock_timeout]_vars

\* C33: a process whose acquire timed out removes the lock file when the
\* file is older than 10 seconds, leaves it when it is not, and no lock
\* file of 10 seconds or less is ever removed as stale.
C33_StaleAfterTenSeconds ==
    /\ [][\A p \in Procs :
             (apc[p] = "timeout" /\ apc'[p] # "timeout" /\ lock_file # 0) =>
                (apc'[p] = "remove" <=> lock_age > DOC_STALE_AGE)]_vars
    /\ [][\A p \in Procs :
             (apc[p] = "remove" /\ apc'[p] # "remove" /\ lock_file # 0) =>
                lock_age > DOC_STALE_AGE]_vars

\* C35: the step of add_field_to_report after loading gives the new field
\* to the first loaded entry that has a field value equal to the match
\* value and writes the entries otherwise as loaded; when no loaded entry
\* has such a field value the process exits with code 2 and the report
\* file stays as it is.
C35_AddsToFirstEqualEntry ==
    [][\A p \in Procs :
          (apc[p] = "loaded" /\ apc'[p] # "loaded") =>
             LET rep == loaded[p]
                 f == af_args[p].new_field_name
                 eq == {n \in 1 .. Len(rep) :
                          \E k \in AfFields : rep[n][k] = af_args[p].match_value}
             IN  IF eq = {}
                 THEN /\ apc'[p] = "exited" /\ af_exit_code'[p] = 2
                      /\ report' = report
                 ELSE /\ af_exit_code'[p] # 2
                      /\ report' = [rep EXCEPT ![Least(eq)][f] = ADDED_VALUE]]_vars

\* C35, amended: an entry counts as matching when a field value equals the
\* match value or, the match value being the path of an existing file,
\* names the same absolute path; the new field goes to the first matching
\* entry of the loaded report and nothing else differs from what was
\* loaded; with no matching entry the exit code is 2 and the file stays.
C35_AddsToFirstMatchingEntry ==
    [][\A p \in Procs :
          (apc[p] = "loaded" /\ apc'[p] # "loaded") =>
             LET rep == loaded[p]
                 a == af_args[p]
                 f == a.new_field_name
                 m == {n \in 1 .. Len(rep) :
                         \E k \in AfFields :
                            /\ rep[n][k] # ABSENT
                            /\ \/ rep[n][k] = a.match_value
                               \/ /\ a.match_exists
                                  /\ abspath(rep[n][k]) = abspath(a.match_value)}
             IN  IF m = {}
                 THEN /\ apc'[p] = "exited" /\ af_exit_code'[p] = 2
                      /\ report' = report
                 ELSE /\ af_exit_code'[p] # 2
                      /\ Len(report') = Len(rep)
                      /\ \E n \in m :
                            /\ \A j \in m : n <= j
                            /\ report'[n][f] = ADDED_VALUE
                            /\ \A k \in AfFields \ {f} : report'[n][k] = rep[n][k]
                            /\ \A j \in 1 .. Len(rep) :
                                  j # n => report'[j] = rep[j]]_vars

\* a process has given the field to the first of two entries, which names
\* the file of the match value by another string than the second does
C35_Witness ==
    \E p \in Procs :
       /\ apc[p] = "written"
       /\ af_args[p].match_exists
       /\ Len(report) = 2
       /\ loaded[p][1]["file"] = "./a" /\ loaded[p][2]["file"] = "a"
       /\ report[1][af_args[p].new_field_name] = ADDED_VALUE
       /\ report[2] = loaded[p][2]

\* C34: the full report file keeps its length; each branch report puts its
\* entry, with found_branch_report true, in the place of the first entry
\* that holds its original_file value (its remaster_file value when it has
\* no original_file) and leaves the other entries as they are; a branch
\* report that is not a list of one entry, or whose value no entry holds,
\* ends the process with exit code 1; and the file is rewritten by no
\* process that ends with another code than 0.
C34_BranchReplacesFirstHolder ==
    /\ [][Len(full_report_file') = Len(full_report_file)]_vars
    /\ [][full_report_file' # full_report_file => mb_exit_code' = 0]_vars
    /\ [][(mb_pc = "branch" /\ branch_i <= Len(branch_files)) =>
             LET br == branch_files[branch_i]
                 own == IF Len(br) # 1 THEN ABSENT
                        ELSE IF br[1].fields["original_file"] # ABSENT
                        THEN br[1].fields["original_file"]
                        ELSE br[1].fields["remaster_file"]
                 hold == {n \in 1 .. Len(full_report) :
                            \E k \in MbKeys : /\ own # ABSENT
                                              /\ full_report[n].fields[k] = own}
             IN  IF hold = {}
                 THEN mb_pc' = "exited" /\ mb_exit_code' = 1
                 ELSE /\ mb_pc' = "branch"
                      /\ Len(full_report') = Len(full_report)
                      /\ \A n \in 1 .. Len(full_report) :
                            full_report'[n] =
                               IF n = Least(hold)
                               THEN [fields |-> br[1].fields,
                                     found_branch_report |-> TRUE]
                               ELSE full_report[n]]_vars

\* C36: a call makes at most retries + 1 attempts; only its last attempt
\* can be one that succeeded, and it has returned True exactly when its last
\* attempt succeeded; it has returned False exactly when it made
\* retries + 1 attempts and all failed; and it has slept once, for delay
\* seconds, after every failed attempt but the last one of the range.
C36_AtMostRetriesPlusOneAttempts ==
    LET n == Len(outcomes)
    IN  /\ n <= retries + 1
        /\ \A k \in 1 .. n - 1 : ~outcomes[k]
        /\ rt_result = "True" <=> (n > 0 /\ outcomes[n])
        /\ rt_result = "False" <=>
              (n = retries + 1 /\ \A k \in 1 .. n : ~outcomes[k])
        /\ rt_pc = "returned" <=> rt_result \in {"True", "False"}
        /\ rt_pc = "returned" => rt_slept = delay * (n - 1)
        /\ rt_slept <= delay * retries

\* both attempts of a call with retries = 1 failed: False after one sleep
C36_Witness ==
    /\ rt_pc = "returned"
    /\ retries = 1
    /\ delay = 5
    /\ outcomes = <<FALSE, FALSE>>
    /\ rt_result = "False"
    /\ rt_slept = 5

\* C37: the moved files of one group are all in one target directory; the
\* number of the target directory changes only at the start of a group,
\* only by one and only when the count of the current directory is above
\* 4900; and between the groups the count main keeps for the current
\* directory is the number of files in that directory.
C37_GroupsWholeAndCountExact ==
    /\ [](\A g \in 1 .. Len(sorted_groups) :
             Cardinality({d \in Dirs : <<g, d>> \in moved}) <= 1)
    /\ [][target_counter' # target_counter =>
             /\ da_pc = "group" /\ da_pc' = "files" /\ file_i' = 0
             /\ current_count > DIR_LIMIT
             /\ target_counter' = target_counter + 1]_vars
    /\ [](da_pc \in {"group", "exited"} /\ sorted_groups # <<>> =>
             current_count = dir_files[target_counter])

====
